---- MODULE Spec2Model ----
(***************************************************************************)
(* A model of the SBS -> Blu-ray 3D authoring workflow: main (3D.py), the  *)
(* dependency checker, the chunked encoder, the muxer and the BDMV         *)
(* validator.  External tools (ffmpeg, ffprobe, FRIMEncode64, tsmuxer),    *)
(* dialogs and prompts are the environment: each invocation draws its      *)
(* outcome from the set of outcomes the code distinguishes.                *)
(*                                                                         *)
(* Four specifications share the module:                                   *)
(*   Spec          runs of main over one working directory that persists   *)
(*                 from one run to the next;                               *)
(*   SpecChunks    the chunk arithmetic of create_3d_video_streams;        *)
(*   SpecDeps      check_system_dependencies and run_dependency_check;     *)
(*   SpecValidate  validate_bdmv_structure and its five checks.            *)
(***************************************************************************)
EXTENDS Integers, Sequences, FiniteSets, TLC

(***************************************************************************)
(* Bounds of the model.                                                    *)
(***************************************************************************)
\* runs of main over the same working directory
MaxRuns == 2
\* chunks per encoding run in Spec
MaxChunks == 2
\* largest total_frames in SpecChunks
MaxFrames == 905
\* paths of the BDMV tree that may be missing at once in SpecValidate
MaxMissing == 1
\* DTS timestamps read by the timing check in SpecValidate
MaxStamps == 3
\* probed fields that differ from a compliant stream at once in SpecValidate
MaxDeviations == 1
\* largest frame width and height in SpecAnalyze
MaxWidth == 8
MaxHeight == 3
\* audio streams, and subtitle streams, of the source in SpecTracks
MaxStreams == 2
\* entries the user may get rejected at one prompt in SpecTracks
MaxRetries == 1
MaxFiles == 3
MaxTracks == 2
MaxListed == 4
MaxRefs == 5

(***************************************************************************)
(* Program constants.                                                      *)
(***************************************************************************)
CHUNK_SIZE_FRAMES == 300
FRAME_TOLERANCE == 2
MIN_GIT_YEAR == 2023
MIN_MAJOR == 2
MIN_BDMV_FILE_SIZE == 100

VARIABLES
    \* ---- Spec: main and its callees
    run,          \* number of the current run of main
    pc,           \* position of main or of the callee it is in
    pending,      \* how main ends once its finally block is done
    status,       \* exit status of the process, -1 while it runs
    path,         \* executables found on PATH
    props,        \* video_properties
    i,            \* chunk index of the encoder's loop
    chunk_files,  \* indices in base_chunk_files / dep_chunk_files
    enc_err,      \* an exception is propagating out of the chunk's try block
    dep_chunk_files, \* the muxer's sorted list of dependent chunks
    success,      \* the muxer's success flag
    mux_err,      \* how the muxer's try block ended
    \* ---- the working directory
    left_eye, right_eye, base_chunk, dep_chunk, yuv_left, yuv_right, mux_tmp,
    \* ---- the output directory
    out,
    \* ---- history of the current run, and of the working directory
    h, prev_encoded,
    \* ---- SpecChunks
    c_total, c_i, c_log, c_pc,
    \* ---- SpecDeps
    d_which, d_ts, d_k, d_all_found, d_version_ok, d_exit, d_main, d_dialogs,
    \* ---- SpecValidate
    v_in, v_probe, v_tool, v_pc, v_ran, v_res, v_ret,
    \* ---- SpecAnalyze
    a_probe,      \* what ffprobe answers about the source
    a_crop,       \* what ffmpeg's cropdetect answers
    a_pc,         \* position in analyze_video, then in main
    a_res,        \* analysis_results
    a_ret,        \* how analyze_video ended
    a_main,       \* what main did with the result
    \* ---- SpecTracks
    t_orig,       \* the properties dict as it was handed to select_tracks
    t_props,      \* the properties dict
    t_entry,      \* the entry of the user that was accepted, per stream type
    t_sel,        \* selected_audio and selected_subtitles
    t_tries,      \* entries rejected so far at the current prompt
    t_new,        \* new_properties
    t_pc,         \* position in select_tracks
    \* ---- SpecMeta
    m_dir,        \* os.listdir(work_dir): the file names in listing order
    m_audio,      \* the codecs of properties['audio_streams'], in selection order
    m_subs,       \* the codecs of properties['subtitle_streams'], in selection order
    m_dep,        \* dep_chunk_files
    m_clean,      \* clean_source_path names an existing file
    m_lines,      \* audio_track_lines_for_meta and subtitle_track_lines_for_meta
    m_ran,        \* the ffmpeg steps that were run
    m_meta,       \* the lines of muxer_final.meta, <<>> while it is not written
    m_pc,         \* position in create_bluray_structure
    \* ---- SpecCleanup
    k_success,    \* the muxer's success flag when the finally block starts
    k_list,       \* files_to_cleanup
    k_exists,     \* which of the files exist
    k_idx,        \* position of the for loop in the list
    k_attempt,    \* attempt of the retry loop
    k_tried,      \* per file, how often os.remove was called
    k_removed,    \* the files os.remove removed
    k_warned,     \* the files the cleanup gave up on
    k_pc,         \* position in the finally block
    \* ---- SpecVerify
    s_file,       \* the stream file: "missing", "empty" or "data"
    s_probe,      \* what ffprobe answers about the stream file
    s_probed,     \* ffprobe was run
    s_ret,        \* how _verify_stream_with_ffprobe ended
    s_pc          \* position in _verify_stream_with_ffprobe

mainVars == <<run, pc, pending, status, path, props, i, chunk_files, enc_err,
              dep_chunk_files, success, mux_err>>
wdVars == <<left_eye, right_eye, base_chunk, dep_chunk, yuv_left, yuv_right, mux_tmp>>
histVars == <<h, prev_encoded>>
pipeVars == <<mainVars, wdVars, out, histVars>>
chunkVars == <<c_total, c_i, c_log, c_pc>>
depVars == <<d_which, d_ts, d_k, d_all_found, d_version_ok, d_exit, d_main, d_dialogs>>
valVars == <<v_in, v_probe, v_tool, v_pc, v_ran, v_res, v_ret>>
anVars == <<a_probe, a_crop, a_pc, a_res, a_ret, a_main>>
trVars == <<t_orig, t_props, t_entry, t_sel, t_tries, t_new, t_pc>>
metaVars == <<m_dir, m_audio, m_subs, m_dep, m_clean, m_lines, m_ran, m_meta, m_pc>>
cleanVars == <<k_success, k_list, k_exists, k_idx, k_attempt, k_tried, k_removed, k_warned,
               k_pc>>
verVars == <<s_file, s_probe, s_probed, s_ret, s_pc>>
lateVars == <<metaVars, cleanVars, verVars>>
earlyVars == <<pipeVars, chunkVars, depVars, valVars, anVars, trVars>>
notMeta == <<earlyVars, cleanVars, verVars>>
notClean == <<earlyVars, metaVars, verVars>>
notVer == <<earlyVars, metaVars, cleanVars>>
vars == <<earlyVars, lateVars>>

(***************************************************************************)
(* Files.  A file is absent, or holds a sequence of blocks; a block stands *)
(* for the bytes one encoding run wrote for one chunk of one view.         *)
(***************************************************************************)
Absent == [ex |-> FALSE, data |-> <<>>]
File(d) == [ex |-> TRUE, data |-> d]
Block(r, k) == [run |-> r, idx |-> k]
\* os.path.exists(f) and os.path.getsize(f) > 0
NonEmpty(f) == f.ex /\ Len(f.data) > 0

Chunks == 0 .. (MaxChunks - 1)

\* video_properties before the analysis, or when analyze_video returned None
NoProps == [ok |-> FALSE, total_frames |-> 0, fps_zero |-> FALSE, has_tracks |-> FALSE]

\* the output folder before the muxer has touched it
NoOutput == [made |-> "none", exit |-> 0, mpls |-> -1, clpi |-> -1]

Min(a, b) == IF a < b THEN a ELSE b

Range(s) == {s[k] : k \in 1 .. Len(s)}

(***************************************************************************)
(* encoder.py, create_3d_video_streams: the chunk arithmetic.              *)
(***************************************************************************)
num_chunks(total_frames) ==
    (total_frames + CHUNK_SIZE_FRAMES - 1) \div CHUNK_SIZE_FRAMES

start_frame(k) == k * CHUNK_SIZE_FRAMES

frames_in_this_chunk_NoMin(total_frames, k) == CHUNK_SIZE_FRAMES

frames_in_this_chunk(total_frames, k) ==
    Min(CHUNK_SIZE_FRAMES, total_frames - start_frame(k))

(***************************************************************************)
(* History of one run of main: what has happened so far.  It is written,   *)
(* never read, by the actions.                                             *)
(***************************************************************************)
H0 ==
    [started |-> <<>>,        \* the stages started, in order
     aborted_at |-> -1,       \* Len(started) when a stage aborted, else -1
     dep_passed |-> FALSE,    \* the dependency check passed
     invoked |-> {},          \* external executables the stages tried to run
     not_found |-> {},        \* executables a stage failed to find
     work_dir |-> FALSE,      \* a working directory was selected
     skip_checked |-> FALSE,  \* should_skip_encoding has been called
     prev_streams |-> FALSE,  \* at that call, an earlier run's final streams were there
     skip_offered |-> FALSE,  \* the skip prompt was shown
     skipped |-> FALSE,       \* should_skip_encoding returned True
     enc_invoked |-> FALSE,   \* create_3d_video_streams was called
     enc_returned |-> FALSE,  \* ... and returned normally
     failed_chunk |-> -1,     \* the chunk whose processing failed, else -1
     processed |-> {},        \* chunks whose processing began
     yuv_ok |-> {},           \* chunks whose planes were verified to differ
     sps_ok |-> FALSE,        \* _verify_sps_pps_presence returned True
     mvc_ok |-> FALSE,        \* _contains_mvc_nal_units returned True
     base_checked |-> FALSE,  \* _verify_stream_with_ffprobe was called for the base view
     base_ok |-> FALSE,       \* ... and returned True
     warned |-> {},           \* non-fatal final checks that returned False
     concat |-> FALSE,        \* _concatenate_chunks was called
     mux_started |-> FALSE,   \* create_bluray_structure was called
     mux_passed |-> FALSE,    \* ... and passed its input-presence checks
     extract_failed |-> FALSE,\* remux or extraction of the tracks failed
     preflight |-> FALSE,     \* the pre-flight check of the muxer's inputs ran
     inputs_bad |-> {},       \* at that check, the referenced files missing or empty
     meta_written |-> FALSE,  \* muxer_final.meta was written
     tsmuxer |-> FALSE,       \* tsmuxer was invoked
     mux_returned |-> FALSE,  \* create_bluray_structure returned normally
     validated |-> FALSE,     \* validate_bdmv_structure ran and returned
     verdict |-> FALSE,       \* what it returned
     report |-> "none",       \* the validation message main printed
     unexpected |-> FALSE,    \* main's "except Exception" handler ran
     dialogs |-> 0,           \* file dialogs opened
     prompted |-> FALSE]      \* the cleanup prompt was shown

\* the state of the other specifications' variables while one specification runs
PipeIdle ==
    /\ run = 0 /\ pc = "idle" /\ pending = "none" /\ status = -1
    /\ path = {} /\ props = NoProps
    /\ i = 0 /\ chunk_files = <<>> /\ enc_err = FALSE
    /\ dep_chunk_files = <<>> /\ success = FALSE /\ mux_err = "none"
    /\ left_eye = Absent /\ right_eye = Absent
    /\ base_chunk = [k \in Chunks |-> Absent] /\ dep_chunk = [k \in Chunks |-> Absent]
    /\ yuv_left = [k \in Chunks |-> 0] /\ yuv_right = [k \in Chunks |-> 0]
    /\ mux_tmp = {} /\ out = NoOutput
    /\ h = H0 /\ prev_encoded = FALSE

ChunksIdle == c_total = 0 /\ c_i = 0 /\ c_log = <<>> /\ c_pc = "idle"

DepsIdle ==
    /\ d_which = {} /\ d_ts = [run |-> "none"] /\ d_k = 0
    /\ d_all_found = TRUE /\ d_version_ok = TRUE /\ d_exit = -1
    /\ d_main = "idle" /\ d_dialogs = 0

ValIdle ==
    /\ v_in = [is_dir |-> FALSE] /\ v_probe = [kind |-> "none"] /\ v_tool = [kind |-> "none"]
    /\ v_pc = "idle" /\ v_ran = {} /\ v_res = [c \in {} |-> FALSE] /\ v_ret = "none"

\* analysis_results before anything is stored in it
NoResults ==
    [total_width |-> 0, total_height |-> 0, display_aspect_ratio |-> "N/A",
     sbs_type |-> "none", active_width |-> 0, active_height |-> 0,
     top_bar_height |-> 0, bottom_bar_height |-> 0, has_black_bars |-> FALSE]

AnIdle ==
    /\ a_probe = [kind |-> "none"] /\ a_crop = [kind |-> "none"]
    /\ a_pc = "idle" /\ a_res = NoResults /\ a_ret = "pending" /\ a_main = "none"

\* a properties dict with no stream and no entry of the user
NoTracks == [audio_streams |-> <<>>, subtitle_streams |-> <<>>, total_frames |-> 0]
NoEntry == [kind |-> "unasked", numbers |-> <<>>]

TrIdle ==
    /\ t_orig = NoTracks /\ t_props = NoTracks /\ t_new = NoTracks
    /\ t_entry = [audio_streams |-> NoEntry, subtitle_streams |-> NoEntry]
    /\ t_sel = [audio_streams |-> <<>>, subtitle_streams |-> <<>>]
    /\ t_tries = 0 /\ t_pc = "idle"

MetaIdle ==
    /\ m_dir = <<>> /\ m_audio = <<>> /\ m_subs = <<>> /\ m_dep = <<>>
    /\ m_clean = FALSE /\ m_lines = [audio |-> <<>>, subs |-> <<>>]
    /\ m_ran = {} /\ m_meta = <<>> /\ m_pc = "idle"

CleanIdle ==
    /\ k_success = FALSE /\ k_list = <<>> /\ k_exists = [f \in {} |-> FALSE]
    /\ k_idx = 0 /\ k_attempt = 0 /\ k_tried = [f \in {} |-> 0]
    /\ k_removed = {} /\ k_warned = {} /\ k_pc = "idle"

VerIdle ==
    /\ s_file = "missing" /\ s_probe = [kind |-> "none"] /\ s_probed = FALSE
    /\ s_ret = "pending" /\ s_pc = "idle"

LateIdle == MetaIdle /\ CleanIdle /\ VerIdle

(***************************************************************************)
(* SpecChunks: the loop of create_3d_video_streams over the chunks of a    *)
(* timeline of total_frames frames, logging each chunk's first frame and   *)
(* frame count (the -ss and -frames:v arguments handed to the extractor).  *)
(***************************************************************************)
ChunksInit ==
    /\ c_total \in 1 .. MaxFrames
    /\ c_i = 0
    /\ c_log = <<>>
    /\ c_pc = "loop"
    /\ PipeIdle /\ DepsIdle /\ ValIdle /\ AnIdle /\ TrIdle /\ LateIdle

\* one iteration of "for i in range(num_chunks)"
ChunkStep ==
    /\ c_pc = "loop"
    /\ c_i < num_chunks(c_total)
    /\ c_log' = Append(c_log, [start |-> start_frame(c_i),
                               n |-> frames_in_this_chunk(c_total, c_i)])
    /\ c_i' = c_i + 1
    /\ UNCHANGED <<c_total, c_pc, pipeVars, depVars, valVars, anVars, trVars, lateVars>>

\* the loop ends and the concatenation follows
ChunkLoopEnd ==
    /\ c_pc = "loop"
    /\ c_i >= num_chunks(c_total)
    /\ c_pc' = "concat"
    /\ UNCHANGED <<c_total, c_i, c_log, pipeVars, depVars, valVars, anVars, trVars, lateVars>>

ChunksNext == ChunkStep \/ ChunkLoopEnd

SpecChunks == ChunksInit /\ [][ChunksNext]_vars

RECURSIVE SumFrames(_)
SumFrames(log) ==
    IF log = <<>> THEN 0 ELSE log[1].n + SumFrames(Tail(log))

\* C6: the chunks partition the timeline: ceil(total_frames/300) chunks, chunk k
\* starting at frame 300*k, each of 1..300 frames, contiguous, summing to
\* total_frames.
C6_ChunksPartitionTimeline ==
    /\ \A k \in 1 .. Len(c_log) :
          /\ c_log[k].start = CHUNK_SIZE_FRAMES * (k - 1)
          /\ c_log[k].n >= 1 /\ c_log[k].n <= CHUNK_SIZE_FRAMES
          /\ k > 1 => c_log[k].start = c_log[k - 1].start + c_log[k - 1].n
    /\ c_pc = "concat" =>
          /\ Len(c_log) * CHUNK_SIZE_FRAMES >= c_total
          /\ (Len(c_log) - 1) * CHUNK_SIZE_FRAMES < c_total
          /\ SumFrames(c_log) = c_total
          /\ c_log[Len(c_log)].start + c_log[Len(c_log)].n = c_total

C6_Witness ==
    /\ c_total = 2 * CHUNK_SIZE_FRAMES + 1
    /\ c_pc = "concat"
    /\ Len(c_log) = 3
    /\ c_log[3].n = 1

(***************************************************************************)
(* check_dependencies.py, check_system_dependencies, and 3D.py,            *)
(* run_dependency_check.                                                   *)
(*                                                                         *)
(* which: the executables shutil.which finds.  ts: what running tsmuxer    *)
(* with no arguments gives: run is "ok" (it ran and printed output),       *)
(* "timeout" (TimeoutExpired) or "notfound" (FileNotFoundError); fork says *)
(* the output names github.com/justdan96/tsMuxer; git is the year of the   *)
(* first git-YYYY stamp and ver the major number of the first "version     *)
(* M.m", each -1 when the output has no match.                             *)
(***************************************************************************)
dependencies == <<"ffmpeg", "ffprobe", "tsmuxer", "mkvextract">>

AllTools == {"ffmpeg", "ffprobe", "tsmuxer", "mkvextract", "FRIMEncode64"}

is_modern_NoFallback(ts) ==
    ts.fork /\ ts.git # -1 /\ ts.git >= MIN_GIT_YEAR

is_modern(ts) ==
    IF ~ts.fork THEN FALSE
    ELSE IF ts.git # -1 /\ ts.git >= MIN_GIT_YEAR THEN TRUE
    ELSE ts.ver # -1 /\ ts.ver >= MIN_MAJOR

\* version_ok after the tsmuxer branch of the loop body
tsmuxer_version_ok(ts, version_ok) ==
    IF ts.run \in {"timeout", "notfound"} THEN version_ok
    ELSE IF ~is_modern(ts) THEN FALSE ELSE version_ok

\* the whole checker as a function of its environment: its exit status
check_system_dependencies(which, ts) ==
    LET all_found == \A k \in 1 .. Len(dependencies) : dependencies[k] \in which
        version_ok == IF "tsmuxer" \in which THEN tsmuxer_version_ok(ts, TRUE) ELSE TRUE
    IN IF all_found /\ version_ok THEN 0 ELSE 1

TsOutputs ==
    {[run |-> "timeout", fork |-> FALSE, git |-> -1, ver |-> -1],
     [run |-> "notfound", fork |-> FALSE, git |-> -1, ver |-> -1]}
    \cup [run : {"ok"}, fork : BOOLEAN,
          git : {-1, MIN_GIT_YEAR - 1, MIN_GIT_YEAR},
          ver : {-1, MIN_MAJOR - 1, MIN_MAJOR}]

DepsInit ==
    /\ d_which \in SUBSET AllTools
    /\ d_ts \in TsOutputs
    /\ d_k = 1
    /\ d_all_found = TRUE
    /\ d_version_ok = TRUE
    /\ d_exit = -1
    /\ d_main = "depcheck"
    /\ d_dialogs = 0
    /\ PipeIdle /\ ChunksIdle /\ ValIdle /\ AnIdle /\ TrIdle /\ LateIdle

\* one iteration of "for dep in dependencies"
DepLoopStep ==
    /\ d_main = "depcheck" /\ d_exit = -1
    /\ d_k <= Len(dependencies)
    /\ IF dependencies[d_k] \in d_which
       THEN /\ d_version_ok' = IF dependencies[d_k] = "tsmuxer"
                               THEN tsmuxer_version_ok(d_ts, d_version_ok)
                               ELSE d_version_ok
            /\ UNCHANGED d_all_found
       ELSE /\ d_all_found' = FALSE
            /\ UNCHANGED d_version_ok
    /\ d_k' = d_k + 1
    /\ UNCHANGED <<d_which, d_ts, d_exit, d_main, d_dialogs, pipeVars, chunkVars, valVars, anVars, trVars, lateVars>>

\* the summary after the loop: falls off the end (status 0) or sys.exit(1)
DepSummary ==
    /\ d_main = "depcheck" /\ d_exit = -1
    /\ d_k > Len(dependencies)
    /\ d_exit' = IF d_all_found /\ d_version_ok THEN 0 ELSE 1
    /\ UNCHANGED <<d_which, d_ts, d_k, d_all_found, d_version_ok, d_main, d_dialogs,
                   pipeVars, chunkVars, valVars, anVars, trVars, lateVars>>

\* run_dependency_check: subprocess.run(..., check=True) has returned
DepMainAfterCheck ==
    /\ d_main = "depcheck" /\ d_exit # -1
    /\ d_main' = IF d_exit # 0 THEN "exit1" ELSE "select_source"
    /\ UNCHANGED <<d_which, d_ts, d_k, d_all_found, d_version_ok, d_exit, d_dialogs,
                   pipeVars, chunkVars, valVars, anVars, trVars, lateVars>>

\* main opens its first file dialog
DepMainSelectSource ==
    /\ d_main = "select_source"
    /\ d_dialogs' = d_dialogs + 1
    /\ d_main' = "after_dialog"
    /\ UNCHANGED <<d_which, d_ts, d_k, d_all_found, d_version_ok, d_exit,
                   pipeVars, chunkVars, valVars, anVars, trVars, lateVars>>

DepsNext == DepLoopStep \/ DepSummary \/ DepMainAfterCheck \/ DepMainSelectSource

SpecDeps == DepsInit /\ [][DepsNext]_vars

AllFourPresent == {"ffmpeg", "ffprobe", "tsmuxer", "mkvextract"} \subseteq d_which

\* tsMuxeR ran and its output shows a justdan96 build of 2023+ or of version 2+
VersionConfirmed ==
    d_ts.run = "ok" /\ d_ts.fork /\ (d_ts.git >= MIN_GIT_YEAR \/ d_ts.ver >= MIN_MAJOR)

\* C8 as stated: the checker ends with status zero only when all four tools are
\* present and tsMuxeR's version was confirmed, and non-zero otherwise; a non-zero
\* status makes main exit with status 1 before any file dialog.
C8_Original ==
    /\ d_exit # -1 => (d_exit = 0 <=> (AllFourPresent /\ VersionConfirmed))
    /\ d_main = "exit1" => d_dialogs = 0

\* C8 as amended: status zero exactly when all four tools are present and tsMuxeR
\* either was confirmed modern or could not be run (timeout, not startable), in
\* which case the version check is skipped with a warning; status 1 otherwise, and
\* then main exits with status 1 before any file dialog.
C8_ExitStatusOfChecker ==
    /\ d_exit # -1 =>
          /\ d_exit \in {0, 1}
          /\ d_exit = 0 <=>
                (AllFourPresent /\ (VersionConfirmed \/ d_ts.run \in {"timeout", "notfound"}))
          /\ d_exit = check_system_dependencies(d_which, d_ts)
    /\ (d_exit = 1 /\ d_main # "depcheck") => (d_main = "exit1" /\ d_dialogs = 0)
    /\ d_dialogs > 0 => d_exit = 0

C8_Witness ==
    /\ d_exit = 0
    /\ d_ts.run = "timeout"
    /\ d_main = "after_dialog"

(***************************************************************************)
(* bdmv_validator.py.                                                      *)
(*                                                                         *)
(* The produced tree is given by the set of required paths that are        *)
(* missing from it; ffprobe's answers are the environment.  Time stamps    *)
(* are counted in ticks of a tenth of the frame period, so the expected    *)
(* delta is TICKS_PER_FRAME and the 10% tolerance is one tick.             *)
(***************************************************************************)
required_paths ==
    <<"BDMV/index.bdmv", "BDMV/MovieObject.bdmv", "BDMV/CLIPINF/00000.clpi",
      "BDMV/PLAYLIST/00000.mpls", "BDMV/STREAM/00000.m2ts", "CERTIFICATE",
      "BDMV/BACKUP/index.bdmv", "BDMV/BACKUP/MovieObject.bdmv",
      "BDMV/BACKUP/CLIPINF/00000.clpi", "BDMV/BACKUP/PLAYLIST/00000.mpls">>

M2TS == "BDMV/STREAM/00000.m2ts"
MPLS == "BDMV/PLAYLIST/00000.mpls"

CheckNames == {"structure", "stream", "timing", "mpls", "frames"}

_check_file_structure(missing) ==
    \A k \in 1 .. Len(required_paths) : required_paths[k] \notin missing

_check_m2ts_stream_NoCodec(m2ts_exists, probe, properties) ==
    IF ~m2ts_exists THEN FALSE
    ELSE IF probe.kind # "ok" THEN FALSE
    ELSE IF probe.nvideo \notin {1, 2} THEN FALSE
    ELSE /\ probe.nvideo = 1 => probe.info.profile = "Stereo High"
         /\ probe.info.r_frame_rate = properties.fps_string

\* probe.kind: "ok", or "error" (CalledProcessError), "badjson" (JSONDecodeError),
\* "notfound" (FileNotFoundError); probe.nvideo: the number of streams whose
\* codec_type is video; probe.info: the first of them.
_check_m2ts_stream(m2ts_exists, probe, properties) ==
    IF ~m2ts_exists THEN FALSE
    ELSE IF probe.kind # "ok" THEN FALSE
    ELSE IF probe.nvideo \notin {1, 2} THEN FALSE
    ELSE LET all_ok1 == probe.nvideo = 1 => probe.info.profile = "Stereo High"
             all_ok2 == all_ok1 /\ probe.info.codec_name = "h264"
             all_ok3 == all_ok2 /\ probe.info.r_frame_rate = properties.fps_string
         IN all_ok3

TICKS_PER_FRAME == 10
TOLERANCE_TICKS == 1

Abs(x) == IF x < 0 THEN -x ELSE x

\* tool.kind: "ok" or "error"/"notfound"; tool.stamps: the pkt_dts_time values left
\* after dropping the empty and the N/A lines.
_check_timing_jumps(m2ts_exists, tool, properties) ==
    IF ~m2ts_exists THEN FALSE
    ELSE IF tool.kind # "ok" THEN FALSE
    ELSE IF Len(tool.stamps) < 2 THEN TRUE
    ELSE IF properties.fps_zero THEN TRUE
    ELSE LET jumps == {k \in 2 .. Len(tool.stamps) :
                         Abs((tool.stamps[k] - tool.stamps[k - 1]) - TICKS_PER_FRAME)
                            > TOLERANCE_TICKS}
         IN jumps = {}

\* tool.kind: "ok" or "ioerror"; tool.magic: the first four bytes
_check_mpls_file(mpls_exists, tool) ==
    IF ~mpls_exists THEN FALSE
    ELSE IF tool.kind # "ok" THEN FALSE
    ELSE tool.magic = "MPLS"

\* tool.kind: "ok", "error"/"notfound", or "notint" (int() raises ValueError)
_check_frame_count_Strict(m2ts_exists, tool, expected_frames) ==
    m2ts_exists /\ tool.kind = "ok" /\ Abs(tool.actual - expected_frames) < FRAME_TOLERANCE

_check_frame_count(m2ts_exists, tool, expected_frames) ==
    IF ~m2ts_exists THEN FALSE
    ELSE IF tool.kind # "ok" THEN FALSE
    ELSE Abs(tool.actual - expected_frames) <= FRAME_TOLERANCE

Verdict_NoFrames(res) ==
    res["structure"] /\ res["stream"] /\ res["timing"] /\ res["mpls"]

\* return structure_ok and stream_ok and timing_ok and mpls_ok and frames_ok
Verdict(res) ==
    res["structure"] /\ res["stream"] /\ res["timing"] /\ res["mpls"] /\ res["frames"]

CompliantInfo ==
    [profile |-> "Stereo High", codec_name |-> "h264", r_frame_rate |-> "24000/1001",
     level |-> 41, sample_aspect_ratio |-> "1:1", pix_fmt |-> "yuv420p",
     refs |-> 4, has_b_frames |-> 0]

InfoFields == DOMAIN CompliantInfo

Deviations(info) == Cardinality({f \in InfoFields : info[f] # CompliantInfo[f]})

Infos ==
    {info \in [profile : {"Stereo High", "High"}, codec_name : {"h264", "hevc"},
               r_frame_rate : {"24000/1001", "25/1"}, level : {41, 40},
               sample_aspect_ratio : {"1:1", "4:3"}, pix_fmt : {"yuv420p", "yuv422p"},
               refs : {4, 5}, has_b_frames : {0, 1}] :
        Deviations(info) <= MaxDeviations}

Probes ==
    [kind : {"error", "badjson", "notfound"}, nvideo : {0}, info : {CompliantInfo}]
    \cup [kind : {"ok"}, nvideo : {0, 3}, info : {CompliantInfo}]
    \cup [kind : {"ok"}, nvideo : {1, 2}, info : Infos]

StampDeltas == {TICKS_PER_FRAME - 2, TICKS_PER_FRAME, TICKS_PER_FRAME + 1, TICKS_PER_FRAME + 2}

RECURSIVE StampSeqs(_)
StampSeqs(n) ==
    IF n = 0 THEN {<<>>}
    ELSE IF n = 1 THEN {<<>>, <<0>>}
    ELSE LET shorter == StampSeqs(n - 1)
         IN shorter \cup {Append(s, s[Len(s)] + d) :
                           s \in {t \in shorter : Len(t) = n - 1}, d \in StampDeltas}

TimingTools ==
    {[kind |-> "error", stamps |-> <<>>]} \cup [kind : {"ok"}, stamps : StampSeqs(MaxStamps)]

MplsTools ==
    {[kind |-> "ioerror", magic |-> ""]} \cup [kind : {"ok"}, magic : {"MPLS", "MPLX"}]

FrameTools(expected) ==
    {[kind |-> "error", actual |-> 0], [kind |-> "notint", actual |-> 0]}
    \cup [kind : {"ok"},
          actual : {n \in (expected - FRAME_TOLERANCE - 1) .. (expected + FRAME_TOLERANCE + 1) :
                      n >= 0}]

\* under a path that is no directory nothing exists
MissingSets(is_dir) ==
    IF is_dir THEN {m \in SUBSET Range(required_paths) : Cardinality(m) <= MaxMissing}
    ELSE {Range(required_paths)}

ValInit ==
    /\ v_in \in [is_dir : BOOLEAN, missing : SUBSET Range(required_paths),
                 fps_string : {"24000/1001"}, fps_zero : BOOLEAN,
                 total_frames : {0, CHUNK_SIZE_FRAMES}]
    /\ v_in.missing \in MissingSets(v_in.is_dir)
    /\ v_probe = [kind |-> "none"]
    /\ v_tool = [kind |-> "none"]
    /\ v_pc = "isdir"
    /\ v_ran = {}
    /\ v_res = [c \in CheckNames |-> FALSE]
    /\ v_ret = "none"
    /\ PipeIdle /\ ChunksIdle /\ DepsIdle /\ AnIdle /\ TrIdle /\ LateIdle

\* if not os.path.isdir(bdmv_root_path): return False
ValIsDir ==
    /\ v_pc = "isdir"
    /\ IF v_in.is_dir
       THEN v_pc' = "structure" /\ UNCHANGED v_ret
       ELSE v_pc' = "returned" /\ v_ret' = "False"
    /\ UNCHANGED <<v_in, v_probe, v_tool, v_ran, v_res, pipeVars, chunkVars, depVars, anVars, trVars, lateVars>>

ValStructure ==
    /\ v_pc = "structure"
    /\ v_res' = [v_res EXCEPT !["structure"] = _check_file_structure(v_in.missing)]
    /\ v_ran' = v_ran \cup {"structure"}
    /\ v_pc' = "stream"
    /\ UNCHANGED <<v_in, v_probe, v_tool, v_ret, pipeVars, chunkVars, depVars, anVars, trVars, lateVars>>

ValStream ==
    /\ v_pc = "stream"
    /\ \E probe \in Probes :
          /\ v_probe' = probe
          /\ v_res' = [v_res EXCEPT !["stream"] =
                          _check_m2ts_stream(M2TS \notin v_in.missing, probe, v_in)]
    /\ v_ran' = v_ran \cup {"stream"}
    /\ v_pc' = "timing"
    /\ UNCHANGED <<v_in, v_tool, v_ret, pipeVars, chunkVars, depVars, anVars, trVars, lateVars>>

ValTiming ==
    /\ v_pc = "timing"
    /\ \E tool \in TimingTools :
          /\ v_tool' = tool
          /\ v_res' = [v_res EXCEPT !["timing"] =
                          _check_timing_jumps(M2TS \notin v_in.missing, tool, v_in)]
    /\ v_ran' = v_ran \cup {"timing"}
    /\ v_pc' = "mpls"
    /\ UNCHANGED <<v_in, v_probe, v_ret, pipeVars, chunkVars, depVars, anVars, trVars, lateVars>>

ValMpls ==
    /\ v_pc = "mpls"
    /\ \E tool \in MplsTools :
          /\ v_tool' = tool
          /\ v_res' = [v_res EXCEPT !["mpls"] =
                          _check_mpls_file(MPLS \notin v_in.missing, tool)]
    /\ v_ran' = v_ran \cup {"mpls"}
    /\ v_pc' = "frames"
    /\ UNCHANGED <<v_in, v_probe, v_ret, pipeVars, chunkVars, depVars, anVars, trVars, lateVars>>

ValFrames ==
    /\ v_pc = "frames"
    /\ \E tool \in FrameTools(v_in.total_frames) :
          /\ v_tool' = tool
          /\ v_res' = [v_res EXCEPT !["frames"] =
                          _check_frame_count(M2TS \notin v_in.missing, tool, v_in.total_frames)]
    /\ v_ran' = v_ran \cup {"frames"}
    /\ v_pc' = "verdict"
    /\ UNCHANGED <<v_in, v_probe, v_ret, pipeVars, chunkVars, depVars, anVars, trVars, lateVars>>

ValReturn ==
    /\ v_pc = "verdict"
    /\ v_ret' = IF Verdict(v_res) THEN "True" ELSE "False"
    /\ v_pc' = "returned"
    /\ UNCHANGED <<v_in, v_probe, v_tool, v_ran, v_res, pipeVars, chunkVars, depVars, anVars, trVars, lateVars>>

ValNext ==
    ValIsDir \/ ValStructure \/ ValStream \/ ValTiming \/ ValMpls \/ ValFrames \/ ValReturn

SpecValidate == ValInit /\ [][ValNext]_vars

\* the stream check's answer, from the properties it inspects
InspectedOk ==
    /\ M2TS \notin v_in.missing
    /\ v_probe.kind = "ok"
    /\ v_probe.nvideo \in {1, 2}
    /\ v_probe.nvideo = 1 => v_probe.info.profile = "Stereo High"
    /\ v_probe.info.codec_name = "h264"
    /\ v_probe.info.r_frame_rate = v_in.fps_string

\* level, SAR, pixel format, reference frames or B-frames of the probed stream are
\* not those of a compliant stream
UninspectedDeviates ==
    /\ v_probe.kind = "ok" /\ v_probe.nvideo \in {1, 2}
    /\ \/ v_probe.info.level # 41
       \/ v_probe.info.sample_aspect_ratio # "1:1"
       \/ v_probe.info.pix_fmt # "yuv420p"
       \/ v_probe.info.refs > 4
       \/ v_probe.info.has_b_frames # 0

FramesCounted == "frames" \in v_ran /\ v_pc \in {"verdict", "returned"}

\* C19: the frame-count check passes exactly when the stream file is there, the
\* counter ran, printed an integer, and that count differs from total_frames by
\* at most 2; a counter that fails or prints no integer makes it fail.
C19_FrameCountWithinTwo ==
    FramesCounted =>
        /\ v_res["frames"] <=>
              /\ M2TS \notin v_in.missing
              /\ v_tool.kind = "ok"
              /\ v_tool.actual - v_in.total_frames \in -2 .. 2
        /\ v_tool.kind \in {"error", "notint"} => ~v_res["frames"]

C19_Witness ==
    /\ FramesCounted
    /\ v_tool.kind = "ok" /\ v_tool.actual = v_in.total_frames + 2
    /\ v_res["frames"]

ProbeErrors == {"exit_nonzero", "not_found", "bad_json", "no_streams"}

\* "except (CalledProcessError, FileNotFoundError, JSONDecodeError, IndexError)"
ProbeErrorsCaught == {"exit_nonzero", "not_found", "bad_json", "no_streams"}

\* what ffprobe may answer: an error, streams none of which is a video stream,
\* or streams with a first video stream of some width, height and aspect ratio
FfprobeAnswers ==
    {[kind |-> k, width |-> 0, height |-> 0, display_aspect_ratio |-> "N/A"] :
        k \in ProbeErrors \cup {"no_video"}}
    \cup [kind : {"video"}, width : 0 .. MaxWidth, height : 0 .. MaxHeight,
          display_aspect_ratio : {"16:9", "N/A"}]

\* what cropdetect may answer: ffmpeg cannot be run, its output has no line with
\* "crop=", the last such line does not match crop=(\d+):(\d+):(\d+):(\d+), or
\* it does
CropAnswers ==
    {[kind |-> k, w |-> 0, h |-> 0, x |-> 0, y |-> 0] :
        k \in {"not_found", "no_line", "unparsable"}}
    \cup [kind : {"crop"}, w : {1, MaxWidth}, h : 0 .. (MaxHeight + 1), x : {0},
          y : 0 .. MaxHeight]

\* step 1 of analyze_video: "return_none", "raise" (an exception leaves the
\* function) or "continue"
probe_step(probe) ==
    IF probe.kind \in ProbeErrors
    THEN (IF probe.kind \in ProbeErrorsCaught THEN "return_none" ELSE "raise")
    ELSE IF probe.kind = "no_video"
    \* video_info = next(..., None) is None, and video_info.get raises
    \* AttributeError, which the except clause does not name
    THEN "raise"
    \* "if not all([total_width, total_height]): return None"
    ELSE IF probe.width = 0 \/ probe.height = 0 THEN "return_none"
    ELSE "continue"

sbs_type_AtLeast(total_width, total_height) ==
    IF 2 * total_width >= 5 * total_height THEN "Full SBS" ELSE "Half SBS"

\* 'Full SBS' if total_width / total_height > 2.5 else 'Half SBS', for a
\* positive height
sbs_type(total_width, total_height) ==
    IF 2 * total_width > 5 * total_height THEN "Full SBS" ELSE "Half SBS"

crop_geometry_NoTop(res, crop) ==
    IF crop.kind # "crop"
    THEN [res EXCEPT !.has_black_bars = FALSE, !.active_width = res.total_width,
                     !.active_height = res.total_height,
                     !.top_bar_height = 0, !.bottom_bar_height = 0]
    ELSE [res EXCEPT !.active_width = crop.w, !.active_height = crop.h,
                     !.top_bar_height = crop.y,
                     !.bottom_bar_height = res.total_height - crop.h,
                     !.has_black_bars = (crop.y > 0 \/ res.total_height - crop.h > 0)]

\* step 3 of analyze_video: the update of analysis_results from cropdetect
crop_geometry(res, crop) ==
    IF crop.kind # "crop"
    THEN [res EXCEPT !.has_black_bars = FALSE, !.active_width = res.total_width,
                     !.active_height = res.total_height,
                     !.top_bar_height = 0, !.bottom_bar_height = 0]
    ELSE LET r == [res EXCEPT !.active_width = crop.w, !.active_height = crop.h,
                              !.top_bar_height = crop.y,
                              !.bottom_bar_height = res.total_height - crop.h - crop.y]
         IN [r EXCEPT !.has_black_bars =
                          (r.top_bar_height > 0 \/ r.bottom_bar_height > 0)]

AnInit ==
    /\ a_probe \in FfprobeAnswers
    /\ a_crop \in CropAnswers
    /\ a_pc = "probe" /\ a_res = NoResults /\ a_ret = "pending" /\ a_main = "none"
    /\ PipeIdle /\ ChunksIdle /\ DepsIdle /\ ValIdle /\ TrIdle /\ LateIdle

\* step 1: ffprobe, the width, height and aspect ratio of the first video stream
AnProbe ==
    /\ a_pc = "probe"
    /\ CASE probe_step(a_probe) = "return_none" ->
              /\ a_ret' = "None" /\ a_pc' = "returned"
              /\ a_res' = IF a_probe.kind = "video"
                          THEN [a_res EXCEPT !.total_width = a_probe.width,
                                             !.total_height = a_probe.height,
                                             !.display_aspect_ratio =
                                                 a_probe.display_aspect_ratio]
                          ELSE a_res
         [] probe_step(a_probe) = "raise" ->
              /\ a_ret' = "raised" /\ a_pc' = "returned" /\ UNCHANGED a_res
         [] OTHER ->
              /\ a_pc' = "classify" /\ UNCHANGED a_ret
              /\ a_res' = [a_res EXCEPT !.total_width = a_probe.width,
                                        !.total_height = a_probe.height,
                                        !.display_aspect_ratio =
                                            a_probe.display_aspect_ratio]
    /\ UNCHANGED <<a_probe, a_crop, a_main, pipeVars, chunkVars, depVars, valVars, trVars, lateVars>>

\* step 2: the SBS type from the storage aspect ratio
AnClassify ==
    /\ a_pc = "classify"
    /\ a_res' = [a_res EXCEPT !.sbs_type = sbs_type(a_res.total_width, a_res.total_height)]
    /\ a_pc' = "crop"
    /\ UNCHANGED <<a_probe, a_crop, a_ret, a_main, pipeVars, chunkVars, depVars, valVars, trVars, lateVars>>

\* step 3: black bars from cropdetect
AnCropDetect ==
    /\ a_pc = "crop"
    /\ a_res' = crop_geometry(a_res, a_crop)
    /\ a_pc' = "finish"
    /\ UNCHANGED <<a_probe, a_crop, a_ret, a_main, pipeVars, chunkVars, depVars, valVars, trVars, lateVars>>

\* steps 4 to 6 store the aspect ratio of the active area, the chapters and the
\* audio and subtitle streams, and analysis_results is returned
AnReturn ==
    /\ a_pc = "finish"
    /\ a_ret' = "dict" /\ a_pc' = "returned"
    /\ UNCHANGED <<a_probe, a_crop, a_res, a_main, pipeVars, chunkVars, depVars, valVars, trVars, lateVars>>

\* main: "if not video_properties: ... sys.exit(1)"; an exception of
\* analyze_video is not handled and ends the process with a traceback
AnMain ==
    /\ a_pc = "returned"
    /\ a_main' = CASE a_ret = "None" -> "exit1"
                   [] a_ret = "raised" -> "traceback"
                   [] OTHER -> "select_tracks"
    /\ a_pc' = "main_done"
    /\ UNCHANGED <<a_probe, a_crop, a_res, a_ret, pipeVars, chunkVars, depVars, valVars, trVars, lateVars>>

AnNext == AnProbe \/ AnClassify \/ AnCropDetect \/ AnReturn \/ AnMain

SpecAnalyze == AnInit /\ [][AnNext]_vars

\* the probe did not determine the video properties
Undetermined ==
    \/ a_probe.kind \in ProbeErrors \cup {"no_video"}
    \/ a_probe.kind = "video" /\ (a_probe.width = 0 \/ a_probe.height = 0)

\* C15 as stated: whenever the analysis cannot determine the video properties
\* (the prober fails or is missing, its output is no JSON, it lists no streams or
\* no video stream, or width or height is missing) analyze_video returns None
\* instead of raising, and main exits with status 1 before track selection.
C15_Original ==
    (Undetermined /\ a_pc = "main_done") => (a_ret = "None" /\ a_main = "exit1")

\* the properties dict analyze_video returned
Returned == a_pc \in {"returned", "main_done"} /\ a_ret = "dict"

\* C16: in every returned properties dict the top bar, the active height and the
\* bottom bar add up to the total height, has_black_bars is true exactly when a
\* bar height is greater than 0, and without a parsable crop line (or without
\* ffmpeg) the active size is the full frame size and both bars are 0.
C16_BarsAddUpToTotalHeight ==
    Returned =>
        /\ a_res.top_bar_height + a_res.active_height + a_res.bottom_bar_height
               = a_res.total_height
        /\ a_res.has_black_bars <=>
               (a_res.top_bar_height > 0 \/ a_res.bottom_bar_height > 0)
        /\ a_crop.kind # "crop" =>
               /\ a_res.active_width = a_res.total_width
               /\ a_res.active_height = a_res.total_height
               /\ a_res.top_bar_height = 0 /\ a_res.bottom_bar_height = 0

C16_Witness ==
    /\ Returned /\ a_crop.kind = "crop"
    /\ a_res.top_bar_height > 0 /\ a_res.bottom_bar_height > 0
    /\ a_res.has_black_bars

\* C17: the source is classified 'Full SBS' exactly when 2 * width > 5 * height
\* and 'Half SBS' otherwise, whatever the black bars and the display aspect
\* ratio are.
C17_SbsTypeFromStorageRatio ==
    Returned =>
        /\ a_res.total_width = a_probe.width /\ a_res.total_height = a_probe.height
        /\ a_res.sbs_type \in {"Full SBS", "Half SBS"}
        /\ a_res.sbs_type = "Full SBS" <=> 2 * a_probe.width > 5 * a_probe.height

C17_Witness ==
    /\ Returned
    /\ 2 * a_probe.width = 5 * a_probe.height
    /\ a_res.sbs_type = "Half SBS"
    /\ a_res.has_black_bars /\ a_res.display_aspect_ratio = "16:9"

(***************************************************************************)
(* SpecTracks: track_selector.py, select_tracks.  A stream is named by its *)
(* type and its place in the source; what the user types at a prompt is    *)
(* "empty", "all", "none", "malformed" (int() raises ValueError) or a list *)
(* of numbers.                                                             *)
(***************************************************************************)
StreamTypes == {"audio_streams", "subtitle_streams"}

\* the streams of one type that analyze_video found
StreamLists(type) ==
    {[j \in 1 .. n |-> <<type, j>>] : n \in 0 .. MaxStreams}

\* what the user may type: one or two numbers, each from 0 to one more than the
\* number of streams there can be
UserEntries ==
    {[kind |-> k, numbers |-> <<>>] : k \in {"empty", "all", "none", "malformed"}}
    \cup {[kind |-> "numbers", numbers |-> ns] :
             ns \in UNION {[1 .. n -> 0 .. (MaxStreams + 1)] : n \in 1 .. 2}}

\* the entry ends the prompt loop: it is empty, 'all' or 'none', or it parses and
\* no index is below 0 or beyond the list
entry_accepted(streams, e) ==
    \/ e.kind \in {"empty", "all", "none"}
    \/ /\ e.kind = "numbers"
       /\ ~\E j \in 1 .. Len(e.numbers) :
              (e.numbers[j] - 1) < 0 \/ (e.numbers[j] - 1) >= Len(streams)

_select_streams_by_type_IgnoreNumbers(streams, e) ==
    IF e.kind = "none" THEN <<>> ELSE streams

\* what _select_streams_by_type returns for an accepted entry; Python's
\* streams[i] with i = number - 1 is the number-th element
_select_streams_by_type(streams, e) ==
    CASE e.kind \in {"empty", "all"} -> streams
      [] e.kind = "none" -> <<>>
      [] OTHER -> [j \in 1 .. Len(e.numbers) |-> streams[(e.numbers[j] - 1) + 1]]

TrInit ==
    /\ \E au \in StreamLists("audio_streams"), su \in StreamLists("subtitle_streams"),
          tf \in {1, 2} :
          /\ t_orig = [audio_streams |-> au, subtitle_streams |-> su, total_frames |-> tf]
          /\ t_props = t_orig
    /\ t_new = NoTracks
    /\ t_entry = [audio_streams |-> NoEntry, subtitle_streams |-> NoEntry]
    /\ t_sel = [audio_streams |-> <<>>, subtitle_streams |-> <<>>]
    /\ t_tries = 0 /\ t_pc = "audio_streams"
    /\ PipeIdle /\ ChunksIdle /\ DepsIdle /\ ValIdle /\ AnIdle /\ LateIdle

\* one call of _select_streams_by_type up to an entry of the user: without
\* streams it returns [] at once; a rejected entry repeats the prompt
SelectStep(type, next) ==
    /\ t_pc = type
    /\ IF t_props[type] = <<>>
       THEN /\ t_sel' = [t_sel EXCEPT ![type] = <<>>]
            /\ t_pc' = next
            /\ UNCHANGED <<t_entry, t_tries>>
       ELSE \E e \in UserEntries :
               IF entry_accepted(t_props[type], e)
               THEN /\ t_sel' = [t_sel EXCEPT ![type] = _select_streams_by_type(t_props[type], e)]
                    /\ t_entry' = [t_entry EXCEPT ![type] = e]
                    /\ t_tries' = 0
                    /\ t_pc' = next
               ELSE /\ t_tries < MaxRetries
                    /\ t_tries' = t_tries + 1
                    /\ UNCHANGED <<t_sel, t_entry, t_pc>>
    /\ UNCHANGED <<t_orig, t_props, t_new, pipeVars, chunkVars, depVars, valVars, anVars, lateVars>>

\* selected_audio = _select_streams_by_type(audio_streams, "Audio")
TrSelectAudio ==
    /\ t_pc = "audio_streams"
    /\ SelectStep("audio_streams", "subtitle_streams")

\* selected_subtitles = _select_streams_by_type(subtitle_streams, "Subtitle")
TrSelectSubtitles ==
    /\ t_pc = "subtitle_streams"
    /\ SelectStep("subtitle_streams", "copy")

\* new_properties = properties.copy(), the two keys are set in the copy and the
\* copy is returned
TrCopy ==
    /\ t_pc = "copy"
    /\ t_new' = [t_props EXCEPT !.audio_streams = t_sel.audio_streams,
                                !.subtitle_streams = t_sel.subtitle_streams]
    /\ t_pc' = "done"
    /\ UNCHANGED <<t_orig, t_props, t_entry, t_sel, t_tries, pipeVars, chunkVars,
                   depVars, valVars, anVars, lateVars>>

TrNext == TrSelectAudio \/ TrSelectSubtitles \/ TrCopy

SpecTracks == TrInit /\ [][TrNext]_vars

\* the list of one type in the result is what the accepted entry asks for
AsEntered(type) ==
    LET e == t_entry[type]
        in_list == t_orig[type]
        out_list == t_new[type]
    IN /\ \A j \in 1 .. Len(out_list) : \E k \in 1 .. Len(in_list) : out_list[j] = in_list[k]
       /\ e.kind \in {"unasked", "none"} => out_list = <<>>
       /\ e.kind = "unasked" <=> in_list = <<>>
       /\ e.kind \in {"empty", "all"} => out_list = in_list
       /\ e.kind = "numbers" =>
             /\ Len(out_list) = Len(e.numbers)
             /\ \A j \in 1 .. Len(e.numbers) :
                    /\ e.numbers[j] \in 1 .. Len(in_list)
                    /\ out_list[j] = in_list[e.numbers[j]]

\* C18: select_tracks returns a dict whose audio_streams and subtitle_streams hold
\* only elements of the input lists (all of them for an empty entry or 'all',
\* none for 'none', otherwise the elements at the 1-based positions entered),
\* whose other keys have the input's values, and leaves the input dict as it was.
C18_SelectTracksFiltersACopy ==
    t_pc = "done" =>
        /\ AsEntered("audio_streams") /\ AsEntered("subtitle_streams")
        /\ t_new.total_frames = t_orig.total_frames
        /\ t_props = t_orig

C18_Witness ==
    /\ t_pc = "done"
    /\ Len(t_orig.audio_streams) = 2 /\ t_entry.audio_streams.numbers = <<2, 1>>
    /\ t_new.audio_streams = <<t_orig.audio_streams[2], t_orig.audio_streams[1]>>
    /\ t_entry.subtitle_streams.kind = "none" /\ t_orig.subtitle_streams # <<>>

(***************************************************************************)
(* SpecMeta: muxer.py, create_bluray_structure up to the writing of        *)
(* muxer_final.meta.  A file name of the working directory is its kind and *)
(* the decimal digits of its chunk number; a line of the meta file is its  *)
(* codec string, the kind of file it names and the numbers in the names.   *)
(***************************************************************************)
LeftEyeName == [kind |-> "left_eye", num |-> <<>>]

\* left_eye.264, temp_chunk_1_base.264 and temp_chunk_<n>_dep.264 for n = 1, 2, 10
DirNames ==
    {LeftEyeName, [kind |-> "base", num |-> <<1>>]}
    \cup {[kind |-> "dep", num |-> d] : d \in {<<1>>, <<2>>, <<1, 0>>}}

\* os.listdir returns the names in arbitrary order
Listings ==
    {l \in UNION {[1 .. n -> DirNames] : n \in 0 .. MaxFiles} :
        \A j, k \in DOMAIN l : j # k => l[j] # l[k]}

TSMUXER_CODEC_MAP ==
    [c \in {"ac3", "eac3", "truehd", "dts", "dca", "dts-hd_ma", "dts-hd_hra", "pcm_bluray",
            "subrip", "hdmv_pgs_subtitle"} |->
        CASE c \in {"ac3", "eac3", "truehd"} -> "A_AC3"
          [] c \in {"dts", "dca", "dts-hd_ma", "dts-hd_hra"} -> "A_DTS"
          [] c = "pcm_bluray" -> "A_LPCM"
          [] c = "subrip" -> "S_TEXT/UTF8"
          [] OTHER -> "S_HDMV/PGS"]

\* codecs of the selected streams: one in the map and one outside it, per type
TrackLists(codecs) == UNION {[1 .. n -> codecs] : n \in 0 .. MaxTracks}

RECURSIVE ToInt(_)
\* int() of a string of decimal digits
ToInt(digits) ==
    IF digits = <<>> THEN 0
    ELSE ToInt(SubSeq(digits, 1, Len(digits) - 1)) * 10 + digits[Len(digits)]

\* the file name itself as the key: the rank of a one- or two-digit number in
\* the order of character strings
chunk_sort_key_Text(name) ==
    name.num[1] * 11 + (IF Len(name.num) > 1 THEN name.num[2] + 1 ELSE 0)

\* key=lambda x: int(re.search(r'temp_chunk_(\d+)_dep\.264', x).group(1))
chunk_sort_key(name) == ToInt(name.num)

RECURSIVE sorted(_)
\* sorted(list, key=...): stable, ascending by key
sorted(list) ==
    IF list = <<>> THEN <<>>
    ELSE LET x == list[Len(list)]
             t == sorted(SubSeq(list, 1, Len(list) - 1))
             k == Cardinality({j \in 1 .. Len(t) : chunk_sort_key(t[j]) <= chunk_sort_key(x)})
         IN SubSeq(t, 1, k) \o <<x>> \o SubSeq(t, k + 1, Len(t))

IsDepChunkName(name) == name.kind = "dep"

\* the names that start with 'temp_chunk_' and end with '_dep.264', sorted
sorted_dep_chunk_files(dir) == sorted(SelectSeq(dir, IsDepChunkName))

RECURSIVE track_lines_Unfiltered(_, _, _)
track_lines_Unfiltered(streams, kind, n) ==
    IF n = 0 THEN <<>>
    ELSE track_lines_Unfiltered(streams, kind, n - 1)
         \o <<[type |-> IF streams[n] \in DOMAIN TSMUXER_CODEC_MAP
                        THEN TSMUXER_CODEC_MAP[streams[n]] ELSE "None",
               src |-> kind, ids |-> <<n - 1>>]>>

RECURSIVE track_lines(_, _, _)
\* "for i, stream in enumerate(streams): ts_codec = TSMUXER_CODEC_MAP.get(...);
\* if not ts_codec: continue; ...; lines.append(...)" for the first n streams
track_lines(streams, kind, n) ==
    IF n = 0 THEN <<>>
    ELSE track_lines(streams, kind, n - 1)
         \o (IF streams[n] \in DOMAIN TSMUXER_CODEC_MAP
             THEN <<[type |-> TSMUXER_CODEC_MAP[streams[n]], src |-> kind,
                     ids |-> <<n - 1>>]>>
             ELSE <<>>)

MetaInit ==
    /\ m_dir \in Listings
    /\ m_audio \in TrackLists({"ac3", "aac"})
    /\ m_subs \in TrackLists({"subrip", "dvd_subtitle"})
    /\ m_dep = <<>> /\ m_clean = FALSE /\ m_lines = [audio |-> <<>>, subs |-> <<>>]
    /\ m_ran = {} /\ m_meta = <<>> /\ m_pc = "list"
    /\ PipeIdle /\ ChunksIdle /\ DepsIdle /\ ValIdle /\ AnIdle /\ TrIdle /\ CleanIdle /\ VerIdle

\* the listing of the dependent chunks and the two input-presence checks
MetaList ==
    /\ m_pc = "list"
    /\ m_dep' = sorted_dep_chunk_files(m_dir)
    /\ m_pc' = IF LeftEyeName \notin Range(m_dir) \/ sorted_dep_chunk_files(m_dir) = <<>>
               THEN "exit1" ELSE "remux"
    /\ UNCHANGED <<m_dir, m_audio, m_subs, m_clean, m_lines, m_ran, m_meta, notMeta>>

\* step 2a: nothing is remuxed when no stream is selected; a failed remux ends
\* in sys.exit(1); a remux that succeeded has written clean_source_path
MetaRemux ==
    /\ m_pc = "remux"
    /\ IF m_audio \o m_subs = <<>>
       THEN m_clean' = FALSE /\ m_pc' = "extract" /\ UNCHANGED m_ran
       ELSE /\ m_ran' = m_ran \cup {"remux"}
            /\ \E ok \in BOOLEAN : m_clean' = ok /\ m_pc' = IF ok THEN "extract" ELSE "exit1"
    /\ UNCHANGED <<m_dir, m_audio, m_subs, m_dep, m_lines, m_meta, notMeta>>

\* step 2b: "if clean_source_path and os.path.exists(clean_source_path)", one
\* ffmpeg run per stream with a codec of the map; a failed run raises
\* CalledProcessError, which ends in sys.exit(1)
MetaExtract ==
    /\ m_pc = "extract"
    /\ IF ~m_clean
       THEN m_pc' = "write" /\ UNCHANGED <<m_lines, m_ran>>
       ELSE LET lines == [audio |-> track_lines(m_audio, "audio", Len(m_audio)),
                          subs |-> track_lines(m_subs, "subs", Len(m_subs))]
            IN IF lines.audio \o lines.subs = <<>>
               THEN m_pc' = "write" /\ UNCHANGED <<m_lines, m_ran>>
               ELSE /\ m_ran' = m_ran \cup {"extract"}
                    /\ \E ok \in BOOLEAN :
                          IF ok THEN m_lines' = lines /\ m_pc' = "write"
                          ELSE m_pc' = "exit1" /\ UNCHANGED m_lines
    /\ UNCHANGED <<m_dir, m_audio, m_subs, m_dep, m_clean, m_meta, notMeta>>

\* step 2d: final_meta_content, the pre-flight check (IOError when an input is
\* missing or empty) and the writing of the meta file (open may raise IOError)
MetaWrite ==
    /\ m_pc = "write"
    /\ LET final_meta_content ==
              <<[type |-> "MUXOPT", src |-> "options", ids |-> <<>>],
                [type |-> "V_MPEG4/ISO/AVC", src |-> "left_eye", ids |-> <<>>],
                [type |-> "V_MPEG4/ISO/MVC", src |-> "dep",
                 ids |-> [j \in 1 .. Len(m_dep) |-> ToInt(m_dep[j].num)]]>>
              \o m_lines.audio \o m_lines.subs
       IN \E step \in {"ok", "inputs_bad", "write_fails"} :
             IF step = "ok"
             THEN m_meta' = final_meta_content /\ m_pc' = "done"
             ELSE m_pc' = "exit1" /\ UNCHANGED m_meta
    /\ UNCHANGED <<m_dir, m_audio, m_subs, m_dep, m_clean, m_lines, m_ran, notMeta>>

MetaNext == MetaList \/ MetaRemux \/ MetaExtract \/ MetaWrite

SpecMeta == MetaInit /\ [][MetaNext]_vars

\* the numbers in the names of the MVC line of the written meta file
MvcLine == m_meta[3].ids

DepNamesInDir == {n \in Range(m_dir) : n.kind = "dep"}

\* C25: the dependent chunks of the MVC line are in ascending numeric order of
\* their chunk number, whatever the order of the directory listing, and every
\* temp_chunk_<n>_dep.264 of the working directory is named exactly once.
C25_MvcLineInNumericOrder ==
    m_pc = "done" =>
        /\ m_meta[3].type = "V_MPEG4/ISO/MVC"
        /\ \A j \in 1 .. (Len(MvcLine) - 1) : MvcLine[j] < MvcLine[j + 1]
        /\ Range(MvcLine) = {ToInt(n.num) : n \in DepNamesInDir}
        /\ Len(MvcLine) = Cardinality(DepNamesInDir)

C25_Witness ==
    /\ m_pc = "done"
    /\ m_dir = <<[kind |-> "dep", num |-> <<1, 0>>], LeftEyeName, [kind |-> "dep", num |-> <<2>>]>>
    /\ MvcLine = <<2, 10>>

\* the lines the selected streams of one type must produce: one per stream whose
\* codec is in the map, in selection order, numbered by position in the selection
ExpectedLines(streams, kind) ==
    LET inMap == {j \in 1 .. Len(streams) : streams[j] \in DOMAIN TSMUXER_CODEC_MAP}
        nth(k) == CHOOSE j \in inMap : Cardinality({q \in inMap : q <= j}) = k
    IN [k \in 1 .. Cardinality(inMap) |->
           [type |-> TSMUXER_CODEC_MAP[streams[nth(k)]], src |-> kind, ids |-> <<nth(k) - 1>>]]

\* C26: the written meta file is one MUXOPT line, one AVC line naming
\* left_eye.264, one MVC line naming the dependent chunks, then one line per
\* selected audio stream with a codec of the map, in selection order, then one
\* per such subtitle stream; a stream with another codec has no line; with no
\* selected stream the file has these three lines only and neither the remux
\* nor an extraction is run.
C26_MetaFileLayout ==
    /\ m_pc = "done" =>
          /\ <<m_meta[1].type, m_meta[2].type, m_meta[3].type>>
                = <<"MUXOPT", "V_MPEG4/ISO/AVC", "V_MPEG4/ISO/MVC">>
          /\ m_meta[2].src = "left_eye" /\ m_meta[3].src = "dep"
          /\ SubSeq(m_meta, 4, Len(m_meta))
                = ExpectedLines(m_audio, "audio") \o ExpectedLines(m_subs, "subs")
    /\ (m_audio = <<>> /\ m_subs = <<>>) =>
          /\ m_ran = {}
          /\ m_pc = "done" => Len(m_meta) = 3

C26_Witness ==
    /\ m_pc = "done"
    /\ m_audio = <<"aac", "ac3">> /\ m_subs = <<"subrip", "dvd_subtitle">>
    /\ Len(m_meta) = 5
    /\ m_meta[4] = [type |-> "A_AC3", src |-> "audio", ids |-> <<1>>]
    /\ m_meta[5] = [type |-> "S_TEXT/UTF8", src |-> "subs", ids |-> <<0>>]

(***************************************************************************)
(* SpecCleanup: muxer.py, the finally block of create_bluray_structure.    *)
(* Each os.remove either removes the file or raises OSError.               *)
(***************************************************************************)
\* [final_meta_path, tsmuxer_log_path, clean_source_path, left_eye_path]
\* + dep_chunk_files + the extracted streams
CleanupFiles == <<"meta", "log", "clean", "left_eye", "dep_0", "dep_1", "audio_0", "sub_0">>

log_taken_off_cleanup_Never(ok) == FALSE

\* "if not success and tsmuxer_log_path in files_to_cleanup:
\* files_to_cleanup.remove(tsmuxer_log_path)"
log_taken_off_cleanup(ok) == ~ok

\* "for attempt in range(3)"
REMOVE_ATTEMPTS == 3

after_failed_attempt_GiveUp(attempt) == "give_up"

\* "if attempt < 2: ... time.sleep(1)" and the next attempt, else the warning,
\* after which the retry loop is exhausted
after_failed_attempt(attempt) ==
    IF attempt < REMOVE_ATTEMPTS - 1 THEN "retry" ELSE "give_up"

CleanInit ==
    /\ k_success \in BOOLEAN
    /\ k_list = SubSeq(CleanupFiles, 1, MaxListed)
    /\ k_exists \in [Range(SubSeq(CleanupFiles, 1, MaxListed)) -> BOOLEAN]
    /\ k_idx = 1 /\ k_attempt = 0
    /\ k_tried = [f \in Range(SubSeq(CleanupFiles, 1, MaxListed)) |-> 0]
    /\ k_removed = {} /\ k_warned = {} /\ k_pc = "start"
    /\ PipeIdle /\ ChunksIdle /\ DepsIdle /\ ValIdle /\ AnIdle /\ TrIdle /\ MetaIdle /\ VerIdle

\* "if not success and tsmuxer_log_path in files_to_cleanup: files_to_cleanup.remove(...)"
CleanStart ==
    /\ k_pc = "start"
    /\ k_list' = IF log_taken_off_cleanup(k_success)
                 THEN SelectSeq(k_list, LAMBDA f : f # "log") ELSE k_list
    /\ k_pc' = "for"
    /\ UNCHANGED <<k_success, k_exists, k_idx, k_attempt, k_tried, k_removed, k_warned,
                   notClean>>

\* the head of "for f_path in files_to_cleanup" and "if not f_path or not
\* os.path.exists(f_path): continue"
CleanFor ==
    /\ k_pc = "for"
    /\ IF k_idx > Len(k_list)
       THEN k_pc' = "done" /\ UNCHANGED <<k_idx, k_attempt>>
       ELSE IF ~k_exists[k_list[k_idx]]
       THEN k_idx' = k_idx + 1 /\ UNCHANGED <<k_pc, k_attempt>>
       ELSE k_pc' = "remove" /\ k_attempt' = 0 /\ UNCHANGED k_idx
    /\ UNCHANGED <<k_success, k_list, k_exists, k_tried, k_removed, k_warned, notClean>>

\* one attempt of the retry loop: os.remove and break, or except OSError
CleanRemove ==
    /\ k_pc = "remove"
    /\ LET f == k_list[k_idx]
       IN /\ k_tried' = [k_tried EXCEPT ![f] = @ + 1]
          /\ \E removed \in BOOLEAN :
                IF removed
                THEN /\ k_exists' = [k_exists EXCEPT ![f] = FALSE]
                     /\ k_removed' = k_removed \cup {f}
                     /\ k_idx' = k_idx + 1 /\ k_pc' = "for"
                     /\ UNCHANGED <<k_attempt, k_warned>>
                ELSE IF after_failed_attempt(k_attempt) = "retry"
                THEN /\ k_attempt' = k_attempt + 1
                     /\ UNCHANGED <<k_exists, k_removed, k_idx, k_pc, k_warned>>
                ELSE /\ k_warned' = k_warned \cup {f}
                     /\ k_idx' = k_idx + 1 /\ k_pc' = "for"
                     /\ UNCHANGED <<k_exists, k_removed, k_attempt>>
    /\ UNCHANGED <<k_success, k_list, notClean>>

CleanNext == CleanStart \/ CleanFor \/ CleanRemove

SpecCleanup == CleanInit /\ [][CleanNext]_vars

\* the finally block is straight-line code with bounded loops: it keeps running
SpecCleanupLive == SpecCleanup /\ WF_vars(CleanNext)

\* what holds of every file of the list at every point of the cleanup
CleanupBounded ==
    \A f \in DOMAIN k_tried :
        /\ k_tried[f] <= 3
        /\ f \in k_removed => (~k_exists[f] /\ f \notin k_warned)
        /\ f \in k_warned => (k_tried[f] = 3 /\ k_exists[f])
        /\ (k_pc = "remove" /\ k_list[k_idx] = f) => (f \notin k_removed /\ k_tried[f] = k_attempt)
        /\ (k_pc = "done" /\ f \in Range(k_list) /\ k_exists[f]) => f \in k_warned

\* C28: the cleanup terminates; each existing file of the list gets at most 3
\* deletion attempts, a successful attempt ends the attempts for that file, and
\* after a third failed attempt the cleanup warns, gives the file up and goes on
\* to the next file.
C28_CleanupTerminates ==
    /\ []CleanupBounded
    /\ <>(k_pc = "done")

C28_Witness ==
    /\ k_pc = "done"
    /\ "meta" \in k_warned /\ k_tried["meta"] = 3
    /\ "left_eye" \in k_removed /\ k_tried["left_eye"] = 2

(***************************************************************************)
(* SpecVerify: encoder.py, _verify_stream_with_ffprobe for the base view   *)
(* (is_dependent_view = False).  stream_info is the first entry of the     *)
(* prober's stream list, a dict in which any key may be absent.            *)
(***************************************************************************)
\* dict.get(key, default)
Get(dict, key, default) == IF key \in DOMAIN dict THEN dict[key] ELSE default

\* full stream entries: the compliant value of each key and one or two others
FullInfos ==
    [profile : {"High", "Main"}, level : {41, 40}, sample_aspect_ratio : {"1:1", "4:3"},
     pix_fmt : {"yuv420p", "yuv422p"}, refs : (MaxRefs - 2) .. MaxRefs, has_b_frames : {0, 1}]

\* stream entries with any of the keys left out
StreamInfos ==
    {[key \in present |-> full[key]] :
        full \in FullInfos,
        present \in SUBSET {"profile", "level", "sample_aspect_ratio", "pix_fmt", "refs",
                            "has_b_frames"}}

\* ffprobe exits non-zero (CalledProcessError), is not on PATH (FileNotFoundError),
\* lists no stream (IndexError), or lists streams
VerifyProbes ==
    {[kind |-> "exit_nonzero"], [kind |-> "not_found"], [kind |-> "no_streams"]}
    \cup [kind : {"ok"}, info : StreamInfos]

is_compliant_NoRefs(stream_info) ==
    /\ Get(stream_info, "profile", "None") = "High"
    /\ Get(stream_info, "level", 0) = 41
    /\ Get(stream_info, "sample_aspect_ratio", "None") = "1:1"
    /\ Get(stream_info, "pix_fmt", "None") = "yuv420p"
    /\ ~(Get(stream_info, "has_b_frames", -1) # 0)

\* the six "if ...: is_compliant = False" statements
is_compliant(stream_info) ==
    /\ ~(Get(stream_info, "profile", "None") # "High")
    /\ ~(Get(stream_info, "level", 0) # 41)
    /\ ~(Get(stream_info, "sample_aspect_ratio", "None") # "1:1")
    /\ ~(Get(stream_info, "pix_fmt", "None") # "yuv420p")
    /\ ~(Get(stream_info, "refs", 99) > 4)
    /\ ~(Get(stream_info, "has_b_frames", -1) # 0)

VerInit ==
    /\ s_file \in {"missing", "empty", "data"}
    /\ s_probe \in VerifyProbes
    /\ s_probed = FALSE /\ s_ret = "pending" /\ s_pc = "exists"
    /\ PipeIdle /\ ChunksIdle /\ DepsIdle /\ ValIdle /\ AnIdle /\ TrIdle /\ MetaIdle /\ CleanIdle

\* "if not os.path.exists(stream_path) or os.path.getsize(stream_path) == 0:
\* return False"
VerExists ==
    /\ s_pc = "exists"
    /\ IF s_file # "data"
       THEN s_ret' = "False" /\ s_pc' = "done"
       ELSE s_pc' = "probe" /\ UNCHANGED s_ret
    /\ UNCHANGED <<s_file, s_probe, s_probed, notVer>>

\* the try block: ffprobe (check=True), the first stream entry, the compliance
\* checks; only CalledProcessError is handled
VerProbe ==
    /\ s_pc = "probe"
    /\ s_probed' = (s_probe.kind # "not_found")
    /\ s_ret' = CASE s_probe.kind = "exit_nonzero" -> "False"
                  [] s_probe.kind \in {"not_found", "no_streams"} -> "raised"
                  [] OTHER -> IF is_compliant(s_probe.info) THEN "True" ELSE "False"
    /\ s_pc' = "done"
    /\ UNCHANGED <<s_file, s_probe, notVer>>

VerNext == VerExists \/ VerProbe

SpecVerify == VerInit /\ [][VerNext]_vars

\* the probed entry has the key and the value
Has(key, value) == key \in DOMAIN s_probe.info /\ s_probe.info[key] = value

\* C29: the base-view verification accepts a stream exactly when the file has
\* data and the probed profile is 'High', the level 41, the sample aspect ratio
\* '1:1', the pixel format 'yuv420p', the reference-frame count at most 4 and
\* has_b_frames 0; an entry without refs or without has_b_frames is rejected; a
\* missing or empty file is rejected without running the prober.
C29_BaseViewAcceptedIffCompliant ==
    s_pc = "done" =>
        /\ s_ret = "True" <=>
              /\ s_file = "data" /\ s_probe.kind = "ok"
              /\ Has("profile", "High") /\ Has("level", 41)
              /\ Has("sample_aspect_ratio", "1:1") /\ Has("pix_fmt", "yuv420p")
              /\ "refs" \in DOMAIN s_probe.info /\ s_probe.info["refs"] <= 4
              /\ Has("has_b_frames", 0)
        /\ (/\ s_file = "data" /\ s_probe.kind = "ok"
            /\ {"refs", "has_b_frames"} \ DOMAIN s_probe.info # {}) => s_ret = "False"
        /\ s_file # "data" => (s_ret = "False" /\ ~s_probed)

C29_Witness ==
    /\ s_pc = "done" /\ s_ret = "True"
    /\ s_probe.kind = "ok" /\ s_probe.info["refs"] = 4

(***************************************************************************)
(* 3D.py, main, with encoder.py and muxer.py: the runs of the workflow.    *)
(***************************************************************************)
StageOrder ==
    <<"dependency_check", "source_selection", "video_analysis", "track_selection",
      "confirmation", "workdir_selection", "encoding", "parent_selection",
      "muxing", "validation">>

\* total_frames values the analysis may report in Spec: none, and the first and
\* last frame counts of each number of chunks
SampleFrames ==
    {n \in 0 .. (MaxChunks * CHUNK_SIZE_FRAMES) : n % CHUNK_SIZE_FRAMES <= 1}

encLocals == <<i, chunk_files, enc_err>>
muxLocals == <<dep_chunk_files, success, mux_err>>
otherSpecs == <<chunkVars, depVars, valVars, anVars, trVars, lateVars>>

Goto(p) == pc' = p /\ UNCHANGED <<pending, status>>
\* sys.exit(code) outside main's try block
ExitNow(code) == pc' = "exited" /\ status' = code /\ UNCHANGED pending
\* leaving main's try block with no finally block around it
ToFinally_NoFinally(how) ==
    pc' = "exited" /\ status' = (IF how = "exit1" THEN 1 ELSE 0) /\ UNCHANGED pending

\* leaving main's try block: how is "exit1" for a SystemExit(1) passing through,
\* "return" for a return, the end of the block or a handled exception
ToFinally(how) == pc' = "finally" /\ pending' = how /\ UNCHANGED status

Began(stage) == [h EXCEPT !.started = Append(@, stage)]
Aborted(hh) == [hh EXCEPT !.aborted_at = Len(hh.started)]

Init ==
    /\ run = 1 /\ pc = "dep_check" /\ pending = "none" /\ status = -1
    /\ path \in SUBSET AllTools
    /\ props = NoProps
    /\ i = 0 /\ chunk_files = <<>> /\ enc_err = FALSE
    /\ dep_chunk_files = <<>> /\ success = FALSE /\ mux_err = "none"
    /\ left_eye = Absent /\ right_eye = Absent
    /\ base_chunk = [k \in Chunks |-> Absent] /\ dep_chunk = [k \in Chunks |-> Absent]
    /\ yuv_left = [k \in Chunks |-> 0] /\ yuv_right = [k \in Chunks |-> 0]
    /\ mux_tmp = {} /\ out = NoOutput
    /\ h = H0 /\ prev_encoded = FALSE
    /\ ChunksIdle /\ DepsIdle /\ ValIdle /\ AnIdle /\ TrIdle /\ LateIdle

\* run_dependency_check: the checker runs as a child process; a non-zero status
\* raises CalledProcessError and main exits with status 1
RunDependencyCheck ==
    /\ pc = "dep_check"
    /\ \E ts \in TsOutputs :
          IF check_system_dependencies(path, ts) = 0
          THEN /\ Goto("select_source")
               /\ h' = [Began("dependency_check") EXCEPT !.dep_passed = TRUE]
          ELSE /\ ExitNow(1)
               /\ h' = Aborted(Began("dependency_check"))
    /\ UNCHANGED <<run, path, props, encLocals, muxLocals, wdVars, out, prev_encoded,
                   otherSpecs>>

\* "if not source_file: sys.exit(1)"
source_aborts(source_file) == ~source_file

SelectSource ==
    /\ pc = "select_source"
    /\ \E source_file \in BOOLEAN :
          LET hh == [Began("source_selection") EXCEPT !.dialogs = @ + 1]
          IN IF source_aborts(source_file)
             THEN ExitNow(1) /\ h' = Aborted(hh)
             ELSE Goto("analyze") /\ h' = hh
    /\ UNCHANGED <<run, path, props, encLocals, muxLocals, wdVars, out, prev_encoded,
                   otherSpecs>>

\* analyze_video returns None, or the properties of the source
AnalyzeVideo ==
    /\ pc = "analyze"
    /\ LET hh == [Began("video_analysis") EXCEPT !.invoked = @ \cup {"ffprobe", "ffmpeg"}]
       IN \/ /\ props' = NoProps
             /\ ExitNow(1)
             /\ h' = Aborted(hh)
          \/ /\ \E tf \in SampleFrames, fz \in BOOLEAN, tr \in BOOLEAN :
                   props' = [ok |-> TRUE, total_frames |-> tf, fps_zero |-> fz,
                             has_tracks |-> tr]
             /\ Goto("select_tracks")
             /\ h' = hh
    /\ UNCHANGED <<run, path, encLocals, muxLocals, wdVars, out, prev_encoded, otherSpecs>>

\* select_tracks: the user keeps some of the audio/subtitle tracks, or none
SelectTracks ==
    /\ pc = "select_tracks"
    /\ \E keep \in BOOLEAN :
          props' = [props EXCEPT !.has_tracks = props.has_tracks /\ keep]
    /\ Goto("confirm")
    /\ h' = Began("track_selection")
    /\ UNCHANGED <<run, path, encLocals, muxLocals, wdVars, out, prev_encoded, otherSpecs>>

\* "if not ask_yes_no(...): sys.exit(0)"
Confirm ==
    /\ pc = "confirm"
    /\ \E yes \in BOOLEAN :
          IF yes THEN Goto("select_workdir") /\ h' = Began("confirmation")
          ELSE ExitNow(0) /\ h' = Aborted(Began("confirmation"))
    /\ UNCHANGED <<run, path, props, encLocals, muxLocals, wdVars, out, prev_encoded,
                   otherSpecs>>

\* "if not work_dir: sys.exit(1)"
SelectWorkDir ==
    /\ pc = "select_workdir"
    /\ \E work_dir \in BOOLEAN :
          LET hh == [Began("workdir_selection") EXCEPT !.dialogs = @ + 1]
          IN IF work_dir THEN Goto("skip_check") /\ h' = [hh EXCEPT !.work_dir = TRUE]
             ELSE ExitNow(1) /\ h' = Aborted(hh)
    /\ UNCHANGED <<run, path, props, encLocals, muxLocals, wdVars, out, prev_encoded,
                   otherSpecs>>

\* any(f.startswith('temp_chunk_') and f.endswith('_dep.264') for f in listdir)
dep_chunks_exist(dc) == \E k \in DOMAIN dc : dc[k].ex

files_exist_and_are_valid_AnySize(le, dc) == le.ex /\ dep_chunks_exist(dc)

files_exist_and_are_valid(le, dc) ==
    le.ex /\ Len(le.data) > 0 /\ dep_chunks_exist(dc)

\* should_skip_encoding: the prompt is shown only when the files are judged valid
ShouldSkipEncoding ==
    /\ pc = "skip_check"
    /\ LET hh == [Began("encoding") EXCEPT
                     !.skip_checked = TRUE,
                     !.prev_streams = prev_encoded /\ NonEmpty(left_eye) /\ NonEmpty(right_eye)]
       IN IF files_exist_and_are_valid(left_eye, dep_chunk)
          THEN \E use_existing \in BOOLEAN :
                  IF use_existing
                  THEN /\ Goto("select_parent")
                       /\ h' = [hh EXCEPT !.skip_offered = TRUE, !.skipped = TRUE]
                  ELSE /\ Goto("enc_init")
                       /\ h' = [hh EXCEPT !.skip_offered = TRUE]
          ELSE Goto("enc_init") /\ h' = hh
    /\ UNCHANGED <<run, path, props, encLocals, muxLocals, wdVars, out, prev_encoded,
                   otherSpecs>>

(***************************************************************************)
(* encoder.py, create_3d_video_streams.                                    *)
(***************************************************************************)
\* "if not total_frames or total_frames < 1: sys.exit(1)"
EncInit ==
    /\ pc = "enc_init"
    /\ IF props.total_frames < 1
       THEN /\ ToFinally("exit1")
            /\ h' = Aborted([h EXCEPT !.enc_invoked = TRUE])
            /\ UNCHANGED encLocals
       ELSE /\ Goto("enc_loop")
            /\ h' = [h EXCEPT !.enc_invoked = TRUE]
            /\ i' = 0 /\ chunk_files' = <<>> /\ enc_err' = FALSE
    /\ UNCHANGED <<run, path, props, muxLocals, wdVars, out, prev_encoded, otherSpecs>>

\* the head of "for i in range(num_chunks)" and the lines before the try block;
\* start_frame / fps_float raises ZeroDivisionError, which only main handles
EncLoop ==
    /\ pc = "enc_loop"
    /\ IF i >= num_chunks(props.total_frames)
       THEN Goto("enc_concat_base") /\ UNCHANGED <<h, chunk_files>>
       ELSE IF props.fps_zero
       THEN /\ ToFinally("return")
            /\ h' = Aborted([h EXCEPT !.unexpected = TRUE])
            /\ UNCHANGED chunk_files
       ELSE /\ Goto("enc_left")
            /\ chunk_files' = Append(chunk_files, i)
            /\ h' = [h EXCEPT !.processed = @ \cup {i}]
    /\ UNCHANGED <<run, path, props, i, enc_err, muxLocals, wdVars, out, prev_encoded,
                   otherSpecs>>

\* ffmpeg extracts the left plane; a failed run may leave a partial file
EncExtractLeft ==
    /\ pc = "enc_left"
    /\ \E outcome \in {"ok", "fail", "fail_partial"} :
          /\ yuv_left' = IF outcome = "fail" THEN yuv_left
                         ELSE [yuv_left EXCEPT ![i] = 1]
          /\ IF outcome = "ok"
             THEN Goto("enc_right") /\ UNCHANGED enc_err
                  /\ h' = [h EXCEPT !.invoked = @ \cup {"ffmpeg"}]
             ELSE Goto("enc_finally") /\ enc_err' = TRUE
                  /\ h' = [h EXCEPT !.invoked = @ \cup {"ffmpeg"}, !.failed_chunk = i]
    /\ UNCHANGED <<run, path, props, i, chunk_files, muxLocals, left_eye, right_eye,
                   base_chunk, dep_chunk, yuv_right, mux_tmp, out, prev_encoded, otherSpecs>>

\* ffmpeg extracts the right plane: content 1 is that of the left plane, 2 differs
EncExtractRight ==
    /\ pc = "enc_right"
    /\ \E outcome \in {"same", "differs", "fail", "fail_partial"} :
          /\ yuv_right' = CASE outcome = "same" -> [yuv_right EXCEPT ![i] = 1]
                            [] outcome = "fail" -> yuv_right
                            [] OTHER -> [yuv_right EXCEPT ![i] = 2]
          /\ IF outcome \in {"same", "differs"}
             THEN Goto("enc_verify_yuv") /\ UNCHANGED <<enc_err, h>>
             ELSE Goto("enc_finally") /\ enc_err' = TRUE
                  /\ h' = [h EXCEPT !.failed_chunk = i]
    /\ UNCHANGED <<run, path, props, i, chunk_files, muxLocals, left_eye, right_eye,
                   base_chunk, dep_chunk, yuv_left, mux_tmp, out, prev_encoded, otherSpecs>>

\* False when a file cannot be read or the hashes are equal
_verify_yuv_difference(l, r) == l # 0 /\ r # 0 /\ l # r

\* "if not _verify_yuv_difference(...): raise IOError"
EncVerifyYuv ==
    /\ pc = "enc_verify_yuv"
    /\ IF _verify_yuv_difference(yuv_left[i], yuv_right[i])
       THEN Goto("enc_frim") /\ UNCHANGED enc_err /\ h' = [h EXCEPT !.yuv_ok = @ \cup {i}]
       ELSE Goto("enc_finally") /\ enc_err' = TRUE /\ h' = [h EXCEPT !.failed_chunk = i]
    /\ UNCHANGED <<run, path, props, i, chunk_files, muxLocals, wdVars, out, prev_encoded,
                   otherSpecs>>

\* what FRIMEncode64 leaves at an output path: it keeps what was there (writes
\* nothing), creates an empty file, or writes this run's data
FrimOutcomes == [exit : {0, 1}, base : {"keep", "empty", "data"}, dep : {"keep", "empty", "data"}]

Written(f, what, r, k) ==
    CASE what = "keep" -> f
      [] what = "empty" -> File(<<>>)
      [] OTHER -> File(<<Block(r, k)>>)

\* FRIMEncode64 encodes the chunk; FileNotFoundError when it is not on PATH
EncFrim ==
    /\ pc = "enc_frim"
    /\ IF "FRIMEncode64" \notin path
       THEN /\ Goto("enc_finally") /\ enc_err' = TRUE
            /\ h' = [h EXCEPT !.invoked = @ \cup {"FRIMEncode64"},
                              !.not_found = @ \cup {"FRIMEncode64"},
                              !.failed_chunk = i]
            /\ UNCHANGED <<base_chunk, dep_chunk>>
       ELSE \E o \in FrimOutcomes :
               /\ base_chunk' = [base_chunk EXCEPT ![i] = Written(@, o.base, run, i)]
               /\ dep_chunk' = [dep_chunk EXCEPT ![i] = Written(@, o.dep, run, i)]
               /\ IF o.exit = 0
                  THEN /\ Goto("enc_verify_chunk") /\ UNCHANGED enc_err
                       /\ h' = [h EXCEPT !.invoked = @ \cup {"FRIMEncode64"}]
                  ELSE /\ Goto("enc_finally") /\ enc_err' = TRUE
                       /\ h' = [h EXCEPT !.invoked = @ \cup {"FRIMEncode64"},
                                         !.failed_chunk = i]
    /\ UNCHANGED <<run, path, props, i, chunk_files, muxLocals, left_eye, right_eye,
                   yuv_left, yuv_right, mux_tmp, out, prev_encoded, otherSpecs>>

\* "if not os.path.exists(...) or os.path.getsize(...) == 0: raise IOError", for
\* the base chunk and then for the dependent chunk
EncVerifyChunk ==
    /\ pc = "enc_verify_chunk"
    /\ IF NonEmpty(base_chunk[i]) /\ NonEmpty(dep_chunk[i])
       THEN enc_err' = FALSE /\ UNCHANGED h
       ELSE enc_err' = TRUE /\ h' = [h EXCEPT !.failed_chunk = i]
    /\ Goto("enc_finally")
    /\ UNCHANGED <<run, path, props, i, chunk_files, muxLocals, wdVars, out, prev_encoded,
                   otherSpecs>>

chunk_except_handler_Swallow(err) == "continue"

\* "except (CalledProcessError, FileNotFoundError, IOError): ... sys.exit(1)"
chunk_except_handler(err) == IF err THEN "sys_exit_1" ELSE "continue"

remove_chunk_yuv_Keep(yuv, k) == yuv

\* "for f in [left_chunk_yuv, right_chunk_yuv]: if os.path.exists(f): os.remove(f)"
remove_chunk_yuv(yuv, k) == [yuv EXCEPT ![k] = 0]

\* the chunk's finally block removes its YUV files, then the handler's sys.exit(1)
\* leaves the encoder or the loop goes on
EncFinally ==
    /\ pc = "enc_finally"
    /\ yuv_left' = remove_chunk_yuv(yuv_left, i)
    /\ yuv_right' = remove_chunk_yuv(yuv_right, i)
    /\ IF chunk_except_handler(enc_err) = "sys_exit_1"
       THEN ToFinally("exit1") /\ h' = Aborted(h) /\ UNCHANGED <<i, enc_err>>
       ELSE Goto("enc_loop") /\ i' = i + 1 /\ enc_err' = FALSE /\ UNCHANGED h
    /\ UNCHANGED <<run, path, props, chunk_files, muxLocals, left_eye, right_eye,
                   base_chunk, dep_chunk, mux_tmp, out, prev_encoded, otherSpecs>>

RECURSIVE ConcatData(_, _, _)
\* the bytes of the first n chunk files of the list, in list order
ConcatData(chunk, list, n) ==
    IF n = 0 THEN <<>> ELSE ConcatData(chunk, list, n - 1) \o chunk[list[n]].data

\* the position in the list at which the copy fails: the first chunk file that
\* cannot be opened, or the position of an I/O error (io_fail_at, 0 for none);
\* Len(list) + 1 when it does not fail
FailPosition(chunk, list, io_fail_at) ==
    LET bad == {j \in 1 .. Len(list) : ~chunk[list[j]].ex \/ j = io_fail_at}
    IN IF bad = {} THEN Len(list) + 1 ELSE CHOOSE j \in bad : \A k \in bad : j <= k

_concatenate_chunks_Reversed(chunk, list, io_fail_at) ==
    [final |-> File(ConcatData(chunk, [j \in 1 .. Len(list) |-> list[Len(list) + 1 - j]],
                               Len(list))),
     chunk |-> [k \in DOMAIN chunk |-> IF k \in Range(list) THEN Absent ELSE chunk[k]],
     ok |-> TRUE]

\* _concatenate_chunks: the final file is opened for writing, the chunk files are
\* copied into it in list order, and the finally block removes every chunk file
_concatenate_chunks(chunk, list, io_fail_at) ==
    LET fp == FailPosition(chunk, list, io_fail_at)
    IN [final |-> File(ConcatData(chunk, list, fp - 1)),
        chunk |-> [k \in DOMAIN chunk |-> IF k \in Range(list) THEN Absent ELSE chunk[k]],
        ok |-> fp = Len(list) + 1]

\* _concatenate_chunks(base_chunk_files, left_eye.264); an error is not handled
\* by the encoder and reaches main's "except Exception"
EncConcatBase ==
    /\ pc = "enc_concat_base"
    /\ \E io_fail_at \in 0 .. Len(chunk_files) :
          LET r == _concatenate_chunks(base_chunk, chunk_files, io_fail_at)
          IN /\ left_eye' = r.final
             /\ base_chunk' = r.chunk
             /\ IF r.ok
                THEN Goto("enc_concat_dep") /\ h' = [h EXCEPT !.concat = TRUE]
                ELSE /\ ToFinally("return")
                     /\ h' = Aborted([h EXCEPT !.concat = TRUE, !.unexpected = TRUE])
    /\ UNCHANGED <<run, path, props, encLocals, muxLocals, right_eye, dep_chunk,
                   yuv_left, yuv_right, mux_tmp, out, prev_encoded, otherSpecs>>

\* _concatenate_chunks(dep_chunk_files, right_eye.264)
EncConcatDep ==
    /\ pc = "enc_concat_dep"
    /\ \E io_fail_at \in 0 .. Len(chunk_files) :
          LET r == _concatenate_chunks(dep_chunk, chunk_files, io_fail_at)
          IN /\ right_eye' = r.final
             /\ dep_chunk' = r.chunk
             /\ IF r.ok
                THEN Goto("enc_verify_sps") /\ UNCHANGED h
                ELSE /\ ToFinally("return")
                     /\ h' = Aborted([h EXCEPT !.unexpected = TRUE])
    /\ UNCHANGED <<run, path, props, encLocals, muxLocals, left_eye, base_chunk,
                   yuv_left, yuv_right, mux_tmp, out, prev_encoded, otherSpecs>>

\* a fatal final check: "if not <check>(...): ... sys.exit(1)"
fatal_check_exits_Never(passed) == FALSE

fatal_check_exits(passed) == ~passed

\* _verify_sps_pps_presence(final_base_path): ffprobe lists the packets of
\* left_eye.264; False when ffprobe fails (as on an absent or empty file) or when
\* no SPS or no PPS is listed
EncVerifySps ==
    /\ pc = "enc_verify_sps"
    /\ \E passed \in BOOLEAN :
          /\ passed => NonEmpty(left_eye)
          /\ IF fatal_check_exits(passed)
             THEN ToFinally("exit1")
                  /\ h' = Aborted([h EXCEPT !.invoked = @ \cup {"ffprobe"}])
             ELSE Goto("enc_verify_mvc")
                  /\ h' = [h EXCEPT !.invoked = @ \cup {"ffprobe"}, !.sps_ok = passed]
    /\ UNCHANGED <<run, path, props, encLocals, muxLocals, wdVars, out, prev_encoded,
                   otherSpecs>>

\* _contains_mvc_nal_units(final_dep_path): True when right_eye.264 can be read
\* and holds 00 00 01 0F or 00 00 01 14
EncVerifyMvc ==
    /\ pc = "enc_verify_mvc"
    /\ \E passed \in BOOLEAN :
          /\ passed => NonEmpty(right_eye)
          /\ IF fatal_check_exits(passed)
             THEN ToFinally("exit1") /\ h' = Aborted(h)
             ELSE Goto("enc_sanity") /\ h' = [h EXCEPT !.mvc_ok = passed]
    /\ UNCHANGED <<run, path, props, encLocals, muxLocals, wdVars, out, prev_encoded,
                   otherSpecs>>

\* the final checks whose result is only reported
NonFatalChecks == {"bitrate", "sei"}

\* _verify_plausible_bitrate and _verify_sei_nal_units: each returns True or
\* False (both catch their own errors); on False a message is printed and the
\* encoder goes on
EncSanityWarnings ==
    /\ pc = "enc_sanity"
    /\ \E failed \in SUBSET NonFatalChecks :
          /\ Goto("enc_verify_base")
          /\ h' = [h EXCEPT !.warned = failed]
    /\ UNCHANGED <<run, path, props, encLocals, muxLocals, wdVars, out, prev_encoded,
                   otherSpecs>>

\* what _verify_stream_with_ffprobe does for the base view: it returns True
\* ("pass") or False ("fail": the file is absent or empty, ffprobe exits
\* non-zero, or a property is not compliant), or an error other than
\* CalledProcessError leaves it ("raise": ffprobe's output has no stream or a
\* field of another type)
BaseVerifyOutcomes == {"pass", "fail", "raise"}

\* _verify_stream_with_ffprobe(final_dep_path, ..., is_dependent_view=True): the
\* file exists and is not empty; its result is not used
dep_view_verified(re) == NonEmpty(re)

\* "if not _verify_stream_with_ffprobe(final_base_path, ...): sys.exit(1)", the
\* verification of the dependent view, and the return of the encoder
EncVerifyBase ==
    /\ pc = "enc_verify_base"
    /\ \E outcome \in BaseVerifyOutcomes :
          LET hh == [h EXCEPT !.base_checked = TRUE]
          IN /\ outcome = "pass" => NonEmpty(left_eye)
             /\ IF outcome = "raise"
                THEN ToFinally("return") /\ h' = Aborted([hh EXCEPT !.unexpected = TRUE])
                ELSE IF fatal_check_exits(outcome = "pass")
                THEN ToFinally("exit1") /\ h' = Aborted(hh)
                ELSE /\ Goto("select_parent")
                     /\ h' = [hh EXCEPT !.base_ok = (outcome = "pass"),
                                        !.warned = IF dep_view_verified(right_eye) THEN @
                                                   ELSE @ \cup {"dep_view"},
                                        !.enc_returned = TRUE]
    /\ UNCHANGED <<run, path, props, encLocals, muxLocals, wdVars, out, prev_encoded,
                   otherSpecs>>

parent_cancel_returns_Never(parent_output_dir) == FALSE

\* "if not parent_output_dir: return"
parent_cancel_returns(parent_output_dir) == ~parent_output_dir

SelectParent ==
    /\ pc = "select_parent"
    /\ \E parent_output_dir \in BOOLEAN :
          LET hh == [Began("parent_selection") EXCEPT !.dialogs = @ + 1]
          IN /\ h' = IF parent_output_dir THEN hh ELSE Aborted(hh)
             /\ IF parent_cancel_returns(parent_output_dir)
                THEN ToFinally("return")
                ELSE Goto("mux_start")
    /\ UNCHANGED <<run, path, props, encLocals, muxLocals, wdVars, out, prev_encoded,
                   otherSpecs>>

(***************************************************************************)
(* muxer.py, create_bluray_structure.  mux_tmp holds the muxer's own files *)
(* in the working directory: "clean" (clean_remux_for_audio.mkv), "tracks" *)
(* (the extracted audio/subtitle streams, all non-empty), "tracks_empty"   *)
(* (the same with an empty one among them), "meta" (muxer_final.meta) and  *)
(* "log" (tsmuxer_output.log).                                             *)
(***************************************************************************)
RECURSIVE SortedSeq(_)
\* sorted(..., key = the chunk number)
SortedSeq(S) ==
    IF S = {} THEN <<>>
    ELSE LET m == CHOOSE x \in S : \A y \in S : x <= y
         IN <<m>> \o SortedSeq(S \ {m})

\* the temp_chunk_<n>_dep.264 files of the working directory, sorted numerically
list_dep_chunk_files(dc) == SortedSeq({k \in DOMAIN dc : dc[k].ex})

\* the two input-presence checks before the try block; each ends in sys.exit(1)
MuxStart ==
    /\ pc = "mux_start"
    /\ dep_chunk_files' = list_dep_chunk_files(dep_chunk)
    /\ success' = FALSE /\ mux_err' = "none"
    /\ LET hh == [Began("muxing") EXCEPT !.mux_started = TRUE]
       IN IF ~left_eye.ex \/ list_dep_chunk_files(dep_chunk) = <<>>
          THEN ToFinally("exit1") /\ h' = Aborted(hh)
          ELSE Goto("mux_remux") /\ h' = [hh EXCEPT !.mux_passed = TRUE]
    /\ UNCHANGED <<run, path, props, encLocals, wdVars, out, prev_encoded, otherSpecs>>

\* step 2a: with no selected track nothing is remuxed or extracted; a failed
\* remux ends in sys.exit(1) inside the try block
MuxRemux ==
    /\ pc = "mux_remux"
    /\ IF ~props.has_tracks
       THEN Goto("mux_preflight") /\ UNCHANGED <<mux_tmp, mux_err, h>>
       ELSE \E ok \in BOOLEAN :
               IF ok
               THEN /\ Goto("mux_extract") /\ mux_tmp' = mux_tmp \cup {"clean"}
                    /\ h' = [h EXCEPT !.invoked = @ \cup {"ffmpeg"}]
                    /\ UNCHANGED mux_err
               ELSE /\ Goto("mux_finally") /\ mux_err' = "exit1"
                    /\ h' = [h EXCEPT !.invoked = @ \cup {"ffmpeg"}, !.extract_failed = TRUE]
                    /\ UNCHANGED mux_tmp
    /\ UNCHANGED <<run, path, props, encLocals, dep_chunk_files, success, left_eye,
                   right_eye, base_chunk, dep_chunk, yuv_left, yuv_right, out,
                   prev_encoded, otherSpecs>>

\* step 2b: each selected track is extracted with ffmpeg (check=True)
MuxExtract ==
    /\ pc = "mux_extract"
    /\ \E outcome \in {"ok", "empty", "fail"} :
          CASE outcome = "ok" ->
                 /\ Goto("mux_preflight") /\ mux_tmp' = mux_tmp \cup {"tracks"}
                 /\ UNCHANGED <<mux_err, h>>
            [] outcome = "empty" ->
                 /\ Goto("mux_preflight") /\ mux_tmp' = mux_tmp \cup {"tracks_empty"}
                 /\ UNCHANGED <<mux_err, h>>
            [] OTHER ->
                 /\ Goto("mux_finally") /\ mux_err' = "exit1"
                 /\ h' = [h EXCEPT !.extract_failed = TRUE]
                 /\ UNCHANGED mux_tmp
    /\ UNCHANGED <<run, path, props, encLocals, dep_chunk_files, success, left_eye,
                   right_eye, base_chunk, dep_chunk, yuv_left, yuv_right, out,
                   prev_encoded, otherSpecs>>

\* the files the meta file references: left_eye.264, the dependent chunks of the
\* muxer's list and the extracted audio/subtitle streams
MetaInputs(list, tmp) ==
    {<<"base", 0>>} \cup {<<"dep", k>> : k \in Range(list)}
    \cup (IF tmp \cap {"tracks", "tracks_empty"} # {} THEN {<<"tracks", 0>>} ELSE {})

\* os.path.exists(f_path) and os.path.getsize(f_path) > 0 for a referenced file
InputPresent(f, le, dc, tmp) ==
    CASE f[1] = "base" -> NonEmpty(le)
      [] f[1] = "dep" -> NonEmpty(dc[f[2]])
      [] OTHER -> "tracks_empty" \notin tmp

all_files_ok_BaseOnly(le, dc, list, tmp) == NonEmpty(le)

\* the pre-flight check over [left_eye_path] + dep_chunk_files + meta_input_files
all_files_ok(le, dc, list, tmp) ==
    /\ NonEmpty(le)
    /\ \A k \in Range(list) : NonEmpty(dc[k])
    /\ "tracks_empty" \notin tmp

\* pre-flight check ("if not all_files_ok: raise IOError"), the writing of the
\* meta file (open may raise IOError) and the BDMV directories (os.makedirs may
\* raise OSError)
MuxPreflight ==
    /\ pc = "mux_preflight"
    /\ LET bad == {f \in MetaInputs(dep_chunk_files, mux_tmp) :
                      ~InputPresent(f, left_eye, dep_chunk, mux_tmp)}
           hh == [h EXCEPT !.preflight = TRUE, !.inputs_bad = bad,
                           !.extract_failed = @ \/ "tracks_empty" \in mux_tmp]
       IN IF ~all_files_ok(left_eye, dep_chunk, dep_chunk_files, mux_tmp)
          THEN /\ Goto("mux_finally") /\ mux_err' = "exit1"
               /\ h' = hh
               /\ UNCHANGED <<mux_tmp, out>>
          ELSE \E step \in {"ok", "meta_fails", "dirs_fail"} :
                  /\ mux_tmp' = IF step = "meta_fails" THEN mux_tmp ELSE mux_tmp \cup {"meta"}
                  /\ h' = [hh EXCEPT !.meta_written = (step # "meta_fails")]
                  /\ IF step = "ok"
                     THEN Goto("mux_run") /\ out' = [NoOutput EXCEPT !.made = "dirs"]
                          /\ UNCHANGED mux_err
                     ELSE Goto("mux_finally") /\ mux_err' = "exit1" /\ UNCHANGED out
    /\ UNCHANGED <<run, path, props, encLocals, dep_chunk_files, success, left_eye,
                   right_eye, base_chunk, dep_chunk, yuv_left, yuv_right,
                   prev_encoded, otherSpecs>>

\* sizes of 00000.mpls and of 00000.clpi after tsmuxer ran, -1 for a file that
\* does not exist
BdmvSizes == {-1, MIN_BDMV_FILE_SIZE - 1, MIN_BDMV_FILE_SIZE}

\* what tsmuxer leaves: its exit status (non-zero raises CalledProcessError) and
\* the two files
TsmuxerOutcomes == [made : {"muxed"}, exit : {0, 1}, mpls : BdmvSizes, clpi : BdmvSizes]

post_mux_ok_MplsOnly(outcome) ==
    outcome.exit = 0 /\ outcome.mpls >= MIN_BDMV_FILE_SIZE

\* check=True, then "if not os.path.exists(p) or os.path.getsize(p) < 100: raise
\* IOError" for the two files
post_mux_ok(outcome) ==
    /\ outcome.exit = 0
    /\ ~(outcome.mpls = -1 \/ outcome.mpls < MIN_BDMV_FILE_SIZE)
    /\ ~(outcome.clpi = -1 \/ outcome.clpi < MIN_BDMV_FILE_SIZE)

MuxRun ==
    /\ pc = "mux_run"
    /\ \E outcome \in TsmuxerOutcomes :
          /\ out' = outcome
          /\ success' = post_mux_ok(outcome)
          /\ mux_err' = IF post_mux_ok(outcome) THEN "none" ELSE "exit1"
    /\ mux_tmp' = mux_tmp \cup {"log"}
    /\ h' = [h EXCEPT !.tsmuxer = TRUE, !.invoked = @ \cup {"tsmuxer"}]
    /\ Goto("mux_finally")
    /\ UNCHANGED <<run, path, props, encLocals, dep_chunk_files, left_eye,
                   right_eye, base_chunk, dep_chunk, yuv_left, yuv_right,
                   prev_encoded, otherSpecs>>

\* the finally block: every file of files_to_cleanup that exists is removed; the
\* list holds the meta file, the log (taken out when success is False), the clean
\* source, left_eye.264, the dependent chunks and the extracted tracks
MuxFinally ==
    /\ pc = "mux_finally"
    /\ mux_tmp' = IF log_taken_off_cleanup(success) THEN mux_tmp \cap {"log"} ELSE {}
    /\ left_eye' = Absent
    /\ dep_chunk' = [k \in Chunks |->
                        IF k \in Range(dep_chunk_files) THEN Absent ELSE dep_chunk[k]]
    /\ IF mux_err = "exit1"
       THEN ToFinally("exit1") /\ h' = Aborted(h)
       ELSE Goto("validate") /\ h' = [h EXCEPT !.mux_returned = TRUE]
    /\ UNCHANGED <<run, path, props, encLocals, muxLocals, right_eye, base_chunk,
                   yuv_left, yuv_right, out, prev_encoded, otherSpecs>>

(***************************************************************************)
(* 3D.py, main: validation and cleanup.                                    *)
(***************************************************************************)
\* def validate_bdmv_structure(bdmv_root_path, properties)
validate_bdmv_structure_params == <<"bdmv_root_path", "properties">>

\* validate_bdmv_structure(output_bdmv_path)
validate_call_args == <<"output_bdmv_path">>

\* a call binds when every required positional parameter gets an argument;
\* otherwise Python raises TypeError before the body runs
ArgsBind(args, params) == Len(args) = Len(params)

\* step 3: the call of the validator and the report of its verdict; a TypeError
\* is an Exception and lands in main's handler
Validate ==
    /\ pc = "validate"
    /\ IF ArgsBind(validate_call_args, validate_bdmv_structure_params)
       THEN \E verdict \in BOOLEAN :
               h' = [Began("validation") EXCEPT
                        !.validated = TRUE, !.verdict = verdict,
                        !.report = IF verdict THEN "Validation Successful"
                                   ELSE "Validation Failed"]
       ELSE h' = Aborted([Began("validation") EXCEPT !.unexpected = TRUE])
    /\ ToFinally("return")
    /\ UNCHANGED <<run, path, props, encLocals, muxLocals, wdVars, out, prev_encoded,
                   otherSpecs>>

\* the finally block of main: the cleanup prompt, shutil.rmtree on yes (an OSError
\* leaves the directory in place), and then the process ends
MainFinally ==
    /\ pc = "finally"
    /\ \E cleanup \in BOOLEAN, rm_ok \in BOOLEAN :
          IF cleanup /\ rm_ok
          THEN /\ left_eye' = Absent /\ right_eye' = Absent
               /\ base_chunk' = [k \in Chunks |-> Absent]
               /\ dep_chunk' = [k \in Chunks |-> Absent]
               /\ yuv_left' = [k \in Chunks |-> 0]
               /\ yuv_right' = [k \in Chunks |-> 0]
               /\ mux_tmp' = {}
               /\ prev_encoded' = FALSE
          ELSE /\ UNCHANGED wdVars
               /\ prev_encoded' = (prev_encoded \/ h.enc_returned)
    /\ h' = [h EXCEPT !.prompted = TRUE]
    /\ pc' = "exited"
    /\ status' = IF pending = "exit1" THEN 1 ELSE 0
    /\ UNCHANGED <<run, pending, path, props, encLocals, muxLocals, out, otherSpecs>>

\* the user starts the workflow again and will pick the same working directory
NewRun ==
    /\ pc = "exited"
    /\ run < MaxRuns
    /\ run' = run + 1
    /\ pc' = "dep_check" /\ pending' = "none" /\ status' = -1
    /\ path' \in SUBSET AllTools
    /\ props' = NoProps
    /\ i' = 0 /\ chunk_files' = <<>> /\ enc_err' = FALSE
    /\ dep_chunk_files' = <<>> /\ success' = FALSE /\ mux_err' = "none"
    /\ out' = NoOutput
    /\ h' = H0
    /\ UNCHANGED <<wdVars, prev_encoded, otherSpecs>>

Next ==
    \/ RunDependencyCheck \/ SelectSource \/ AnalyzeVideo \/ SelectTracks \/ Confirm
    \/ SelectWorkDir \/ ShouldSkipEncoding
    \/ EncInit \/ EncLoop \/ EncExtractLeft \/ EncExtractRight \/ EncVerifyYuv
    \/ EncFrim \/ EncVerifyChunk \/ EncFinally \/ EncConcatBase \/ EncConcatDep
    \/ EncVerifySps \/ EncVerifyMvc \/ EncSanityWarnings \/ EncVerifyBase
    \/ SelectParent \/ MuxStart \/ MuxRemux \/ MuxExtract \/ MuxPreflight \/ MuxRun
    \/ MuxFinally \/ Validate \/ MainFinally \/ NewRun

Spec == Init /\ [][Next]_vars

(***************************************************************************)
(* Properties of the runs of main.                                         *)
(***************************************************************************)
IsPrefix(s, t) == Len(s) <= Len(t) /\ \A k \in 1 .. Len(s) : s[k] = t[k]

RunEnded == pc \in {"finally", "exited"}

\* C1 as stated: when the encoder returned normally and the muxer is then run on
\* the same directory in the same run, the muxer finds left_eye.264 and the
\* dependent chunks, passes its input-presence checks and, unless the track
\* extraction fails, invokes the multiplexer.
C1_Original ==
    (h.enc_returned /\ h.mux_started) =>
        /\ h.mux_passed
        /\ (RunEnded /\ ~h.extract_failed) => h.tsmuxer

\* C2 as stated: when the muxer returned normally, main runs the validation and
\* reports 'Validation Successful' exactly on True and 'Validation Failed' exactly
\* on False.
C2_Original ==
    (h.mux_returned /\ RunEnded) =>
        /\ h.validated
        /\ h.report = IF h.verdict THEN "Validation Successful" ELSE "Validation Failed"

\* C3 as stated: when an earlier run completed the encoding in the working
\* directory and its streams are still there, a later run offers to skip the
\* encoding and, when the user accepts, does not invoke the encoder.
C3_Original ==
    (h.skip_checked /\ h.prev_streams) =>
        /\ h.skip_offered
        /\ h.skipped => ~h.enc_invoked

\* C4: the stages of a run start in the fixed order, none left out, and once a
\* stage has aborted no further stage starts.
C4_StagesStartInOrder ==
    /\ IsPrefix(h.started, StageOrder)
    /\ h.aborted_at # -1 => Len(h.started) = h.aborted_at
    /\ (pc = "finally" /\ pending = "exit1") => h.aborted_at # -1

C4_Witness ==
    /\ pc = "exited"
    /\ h.started = StageOrder

\* C5: once the processing of chunk i has failed, the encoder ends with exit
\* status 1, no chunk after i is processed, nothing is concatenated and the muxer
\* is not run in that run.
C5_FailFastChunks ==
    h.failed_chunk # -1 =>
        /\ \A k \in h.processed : k <= h.failed_chunk
        /\ ~h.concat /\ ~h.enc_returned
        /\ ~h.mux_started /\ ~h.tsmuxer
        /\ pc \in {"enc_finally", "finally", "exited"}
        /\ pc = "finally" => pending = "exit1"
        /\ pc = "exited" => status = 1

C5_Witness ==
    /\ pc = "exited" /\ status = 1
    /\ num_chunks(props.total_frames) = 2
    /\ h.failed_chunk = 0 /\ h.processed = {0}
    /\ NonEmpty(base_chunk[0]) /\ ~NonEmpty(dep_chunk[0])

\* C7 as stated: when the dependency check has passed, every executable a later
\* stage invokes is one the checker verified, so no stage fails on an executable
\* that was never checked.
C7_Original ==
    h.dep_passed =>
        /\ h.not_found \subseteq Range(dependencies)
        /\ h.invoked \subseteq Range(dependencies)

\* the run has left create_3d_video_streams
EncoderLeft == h.enc_invoked /\ pc \in {"select_parent", "mux_start", "finally", "exited"}

\* C11: create_3d_video_streams returns normally only if the planes of every chunk
\* were verified to differ and the SPS/PPS check, the MVC marker check and the
\* base-view compliance check passed; the bitrate and SEI checks do not abort it
\* (once the MVC check has passed the base-view check is always reached) and
\* neither does the dependent-view verification (once the base-view check has
\* passed the encoder returns).
C11_ReturnsOnlyAfterFatalChecks ==
    /\ h.enc_returned =>
          /\ h.yuv_ok = 0 .. (num_chunks(props.total_frames) - 1)
          /\ h.sps_ok /\ h.mvc_ok /\ h.base_ok
    /\ (h.mvc_ok /\ EncoderLeft) => h.base_checked
    /\ h.base_ok => h.enc_returned

C11_Witness ==
    /\ h.enc_returned
    /\ num_chunks(props.total_frames) = 2
    /\ h.warned = NonFatalChecks

\* C12: tsmuxer is invoked only after the pre-flight check found every file the
\* meta file references present and non-empty and the meta file was written;
\* when a referenced file is missing or empty, tsmuxer is not invoked and the
\* run ends with exit status 1.
C12_MuxerRunsOnlyOnCheckedInputs ==
    /\ h.tsmuxer => (h.preflight /\ h.inputs_bad = {} /\ h.meta_written)
    /\ h.inputs_bad # {} =>
          /\ ~h.tsmuxer /\ ~h.meta_written
          /\ pc \in {"mux_finally", "finally", "exited"}
          /\ pc = "finally" => pending = "exit1"
          /\ pc = "exited" => status = 1

C12_Witness ==
    /\ pc = "exited" /\ status = 1
    /\ <<"dep", 1>> \in h.inputs_bad
    /\ ~h.tsmuxer

\* C13: create_bluray_structure returns normally only if tsmuxer exited with
\* status 0 and 00000.mpls and 00000.clpi both exist with at least 100 bytes;
\* in every other case the run of the muxer ends the process with status 1.
C13_MuxReturnsOnlyOnValidOutput ==
    /\ h.mux_returned =>
          /\ h.tsmuxer /\ out.made = "muxed" /\ out.exit = 0
          /\ out.mpls >= 100 /\ out.clpi >= 100
    /\ (h.mux_started /\ ~h.mux_returned) =>
          /\ pc \in {"mux_remux", "mux_extract", "mux_preflight", "mux_run", "mux_finally",
                     "finally", "exited"}
          /\ pc = "finally" => pending = "exit1"
          /\ pc = "exited" => status = 1

C13_Witness ==
    /\ h.mux_returned
    /\ out.mpls = 100 /\ out.clpi = 100

\* C14: once a working directory has been selected, every end of main (normal
\* completion, a cancelled parent-directory dialog, an exception of a later stage,
\* an exit(1) inside the encoder or the muxer) comes after the cleanup prompt.
C14_CleanupPromptBeforeEveryEnd ==
    /\ (h.work_dir /\ pc = "exited") => h.prompted
    /\ h.prompted => h.work_dir

C14_Witness ==
    /\ pc = "exited" /\ status = 1
    /\ h.work_dir /\ h.failed_chunk # -1
    /\ h.prompted

\* the blocks an encoding run r of n chunks writes for one view, in chunk order
ViewOfRun(r, n) == [k \in 1 .. n |-> Block(r, k - 1)]

\* the bytes tsmuxer reads for the dependent view: the files of the muxer's list
DepInput == ConcatData(dep_chunk, dep_chunk_files, Len(dep_chunk_files))

\* tsmuxer has just been invoked; its input files are still in place
MuxerInvoked == h.tsmuxer /\ pc = "mux_finally"

\* C20 as stated: whenever tsmuxer is invoked, left_eye.264 and the dependent
\* chunk files handed to it were written by one encoding run, and the dependent
\* chunks are exactly chunks 0 .. num_chunks-1 of that run.
C20_Original ==
    MuxerInvoked =>
        \E r \in 1 .. run, n \in 1 .. MaxChunks :
            /\ left_eye.data = ViewOfRun(r, n)
            /\ dep_chunk_files = [k \in 1 .. n |-> k - 1]
            /\ DepInput = ViewOfRun(r, n)

\* C21: should_skip_encoding returns True (main goes on without the encoder)
\* exactly when left_eye.264 exists with size > 0, some temp_chunk_*_dep.264
\* exists and the user answers yes; the user is asked exactly when the files are
\* judged valid; in every other case it returns False (main calls the encoder);
\* the working directory is left as it was.
C21_SkipOnlyOnValidFilesAndYes ==
    [][pc = "skip_check" =>
          LET valid == /\ left_eye.ex /\ Len(left_eye.data) > 0
                       /\ \E k \in Chunks : dep_chunk[k].ex
          IN /\ h'.skip_offered <=> valid
             /\ (pc' = "select_parent") <=> (valid /\ h'.skipped)
             /\ (pc' = "enc_init") <=> ~(valid /\ h'.skipped)
             /\ UNCHANGED wdVars]_vars

C21_Witness ==
    /\ pc = "select_parent" /\ h.skipped /\ ~h.enc_invoked
    /\ left_eye.ex /\ Len(left_eye.data) > 0
    /\ \E k \in Chunks : dep_chunk[k].ex

\* create_bluray_structure got past its two input-presence checks and then ended
\* the process with its error exit
MuxFailedPastChecks == h.mux_passed /\ ~h.mux_returned /\ pc \in {"finally", "exited"}

\* C22 as stated: when create_bluray_structure fails after its initial
\* input-presence checks, left_eye.264 and the dependent chunk files the muxer
\* listed still exist in the working directory afterwards.
C22_Original ==
    MuxFailedPastChecks =>
        /\ left_eye.ex
        /\ \A k \in Range(dep_chunk_files) : dep_chunk[k].ex

RECURSIVE InIndexOrder(_, _)
\* the bytes of chunks 0 .. n-1 of one view, chunk 0 first
InIndexOrder(chunk, n) ==
    IF n = 0 THEN <<>> ELSE InIndexOrder(chunk, n - 1) \o chunk[n - 1].data

\* one call of _concatenate_chunks: from the chunk files before to the final file
\* and the chunk files after, succeeded telling whether it returned normally
Concatenated(before, final, after, succeeded) ==
    /\ \A k \in 0 .. (Len(chunk_files) - 1) : ~after[k].ex
    /\ succeeded => final = File(InIndexOrder(before, Len(chunk_files)))

\* C23: each call of _concatenate_chunks (for the base view, then for the
\* dependent view) that returns normally has written the final stream as the
\* chunk files' bytes in ascending chunk index order, chunk 0 first; after the
\* call none of the chunk files exists, whether it returned or raised part-way.
C23_ConcatenatesInIndexOrderAndRemovesChunks ==
    [][/\ pc = "enc_concat_base" =>
             Concatenated(base_chunk, left_eye', base_chunk', pc' = "enc_concat_dep")
       /\ pc = "enc_concat_dep" =>
             Concatenated(dep_chunk, right_eye', dep_chunk', pc' = "enc_verify_sps")]_vars

C23_Witness ==
    /\ pc = "enc_verify_sps"
    /\ left_eye.data = <<Block(run, 0), Block(run, 1)>>
    /\ right_eye.data = <<Block(run, 0), Block(run, 1)>>
    /\ \A k \in Chunks : ~base_chunk[k].ex /\ ~dep_chunk[k].ex

\* the chunks whose left or right raw YUV file exists
YuvPresent == {k \in Chunks : yuv_left[k] # 0 \/ yuv_right[k] # 0}

\* the steps of one chunk, from the first extraction to its finally block
InChunk == {"enc_left", "enc_right", "enc_verify_yuv", "enc_frim", "enc_verify_chunk",
            "enc_finally"}

\* C24: raw YUV files exist only while a chunk is being processed, and then only
\* those of that chunk; once the chunk's processing has ended, with success or
\* with a failure, and once the encoder has returned or exited, none exists.
C24_YuvOfAtMostTheCurrentChunk ==
    /\ pc \in InChunk => YuvPresent \subseteq {i}
    /\ pc \notin InChunk => YuvPresent = {}

C24_Witness ==
    /\ pc = "enc_frim" /\ i = 1
    /\ yuv_left[1] # 0 /\ yuv_right[1] # 0
    /\ yuv_left[0] = 0 /\ yuv_right[0] = 0

LeftWithZeroFps == EncoderLeft /\ props.fps_zero /\ props.total_frames >= 1

\* C30 as stated: with a frame rate of zero and a positive frame count,
\* create_3d_video_streams ends with its error exit before any extraction or
\* encoding tool runs and raises no unhandled arithmetic error.
C30_Original ==
    LeftWithZeroFps =>
        /\ h.processed = {} /\ "FRIMEncode64" \notin h.invoked
        /\ ~h.unexpected
        /\ pc = "finally" => pending = "exit1"
        /\ pc = "exited" => status = 1
====
